---------------------------- MODULE Spec2Model ----------------------------
(***************************************************************************)
(* Shift reports (reports_mvp): the row normalizer and the aggregator of   *)
(* utils/data_utils.py, the report store of utils/database.py and the      *)
(* report page of pages/reports.py.                                        *)
(*                                                                         *)
(* The specifications of the module:                                        *)
(*   SpecNorm   normalize_task_row applied to one raw row                  *)
(*   SpecSum    calculate_product_summary applied to two task lists        *)
(*   SpecLine   calculate_line_statistics applied to a list of line        *)
(*              employees                                                  *)
(*   SpecSeq    ensure_row_ids and next_seq on one list of the session     *)
(*   SpecStore  clients calling upsert_report and delete_report, the       *)
(*              transaction of upsert_report statement by statement        *)
(*   Spec       one session of the report page working on the store        *)
(*   SpecEmps   the same session, the line employees only                  *)
(*   SpecSave   the save button of the page on working sets of any content *)
(*   SpecDelete the delete section of the page on a store with reports     *)
(*                                                                         *)
(* Python floats are modelled as exact rationals [n, d].  The only place   *)
(* where IEEE arithmetic differs from exact arithmetic inside the model's  *)
(* domain is the direction of a tie in round(); see PyRound.               *)
(***************************************************************************)
EXTENDS Integers, Sequences, FiniteSets, TLC

VARIABLES
    \* ---- SpecNorm: one call of normalize_task_row
    nLine,      \* the line argument
    nRow,       \* the raw row argument
    nOut,       \* the returned row (NoRow before the call)
    nPc,        \* "call" | "done"
    \* ---- SpecSum: one call of calculate_product_summary
    sA3,        \* tasks_A3 argument
    sA4,        \* tasks_A4 argument
    sHours,     \* line_hours argument
    sOut,       \* the returned summary_data (a sequence of table rows)
    sPc,        \* "build" | "done"
    \* ---- SpecLine: one call of calculate_line_statistics
    lEmps,      \* the line_emps argument
    lOut,       \* the returned statistics, or that the call raised
    lPc,        \* "call" | "done"
    \* ---- SpecSeq: the row_id counter of one list of the session
    qSeq,       \* st.session_state[list_name + '_seq'], NoCounter before it exists
    qRows,      \* the row_id of each row of the list, NoRowId for a row without
    qSeen,      \* the values next_seq has returned (history)
    qOp,        \* the last call (history)
    \* ---- the report store
    db,         \* the committed rows of the tables
    seq,        \* the last value of each table's id sequence
    tx,         \* per client: the open transaction of upsert_report
    last,       \* per (site, date): the last committed operation (history)
    ev,         \* the operation of the last step (history)
    calls,      \* the number of upsert_report calls made
    \* ---- the report page: the widgets and st.session_state
    site_name,      \* the site selected
    rep_date,       \* the date selected
    tasks_A3,       \* the working set: the task rows of line A3,
    tasks_A4,       \*   of line A4,
    line_emps,      \*   the line employees
    supports,       \*   and the support roles
    prefilled,      \* the working set was loaded from the stored report
    confirm_delete, \* the delete confirmation is open
    asked_for,      \* the (site, date) the delete button was last pressed for (history)
    pev             \* the handler of the last script run (history)

normVars == <<nLine, nRow, nOut, nPc>>
lineVars == <<lEmps, lOut, lPc>>
seqVars  == <<qSeq, qRows, qSeen, qOp>>
sumVars  == <<sA3, sA4, sHours, sOut, sPc, lineVars, seqVars>>
storeVars == <<db, seq, tx, last, ev, calls>>
pageVars == <<site_name, rep_date, tasks_A3, tasks_A4, line_emps, supports,
              prefilled, confirm_delete, asked_for, pev>>
vars     == <<normVars, sumVars, storeVars, pageVars>>

(***************************************************************************)
(* Rationals: Python float values of the model, kept exact.                *)
(***************************************************************************)
RECURSIVE Gcd(_, _)
Gcd(a, b) == IF b = 0 THEN a ELSE Gcd(b, a % b)

Abs(x) == IF x < 0 THEN -x ELSE x

\* The rational n/d in lowest terms with a positive denominator.
Q(n, d) ==
    LET g == Gcd(Abs(n), Abs(d))
        s == IF d < 0 THEN -1 ELSE 1
    IN  [n |-> s * (n \div g), d |-> s * (d \div g)]

QInt(i)    == [n |-> i, d |-> 1]
QAdd(x, y) == Q(x.n * y.d + y.n * x.d, x.d * y.d)
QMul(x, y) == Q(x.n * y.n, x.d * y.d)
QDiv(x, y) == Q(x.n * y.d, x.d * y.n)
QLess(x, y) == x.n * y.d < y.n * x.d
QFloor(x)  == x.n \div x.d
QIsTie(x)  == 2 * (x.n - QFloor(x) * x.d) = x.d

\* Python's round() on an exactly represented value: round half to even.
RoundHalfEven(x) ==
    LET f == QFloor(x)
        r == 2 * (x.n - f * x.d)
    IN  IF r < x.d THEN f
        ELSE IF r > x.d THEN f + 1
        ELSE IF f % 2 = 0 THEN f ELSE f + 1

\* The neighbour of a tie that round-half-even does not choose.
OtherNeighbour(x) ==
    LET f == QFloor(x) IN IF f % 2 = 0 THEN f + 1 ELSE f


(***************************************************************************)
(* Python values of loosely typed row fields.  k is the kind of value:     *)
(* "absent" (the row has no such key), "none" (None), "nan" (float NaN),   *)
(* "blank" (a string of spaces), "bad" (a string that is no number),       *)
(* "int" (an int, v), "bool" (True/False as v = 1/0).                      *)
(***************************************************************************)
PyAbsent  == [k |-> "absent", v |-> 0]
PyNone    == [k |-> "none",  v |-> 0]
PyNaN     == [k |-> "nan",   v |-> 0]
PyBlank   == [k |-> "blank", v |-> 0]
PyBad     == [k |-> "bad",   v |-> 0]
PyInt(i)  == [k |-> "int",   v |-> i]
PyBool(b) == [k |-> "bool",  v |-> IF b THEN 1 ELSE 0]

\* to_int_safe(value, default): int(value), or default for None, NaN, a
\* blank string and anything int() raises on.
\* dict.get(key, default): the default only when the key is absent.
PyGet(value, default) == IF value.k = "absent" THEN default ELSE value

\* (mutant of to_int_safe: a negative number becomes the default)
to_int_safe_clamped(value, default) ==
    IF PyGet(value, PyNone).k \in {"int", "bool"} /\ value.v >= 0 THEN value.v ELSE default

to_int_safe(value, default) ==
    CASE PyGet(value, PyNone).k = "none" -> default
      [] value.k = "nan"   -> default
      [] value.k = "blank" -> default
      [] value.k = "bad"   -> default
      [] OTHER             -> value.v

\* (mutant of PyTruthy: the flag is inverted)
PyFalsy(value) ==
    CASE value.k = "none"  -> TRUE
      [] value.k = "absent" -> TRUE
      [] value.k = "int"   -> value.v = 0
      [] value.k = "bool"  -> value.v = 0
      [] OTHER             -> FALSE

\* bool(value) of Python: None, 0, False and "" are falsy; NaN and a
\* non-empty string (blank or not) are truthy.
PyTruthy(value) ==
    CASE value.k = "none"  -> FALSE
      [] value.k = "absent" -> FALSE
      [] value.k = "int"   -> value.v # 0
      [] value.k = "bool"  -> value.v # 0
      [] OTHER             -> TRUE

(***************************************************************************)
(* The SAP catalog (sap_catalog rows as fetch_sap_catalog returns them).   *)
(* A norm is [some, q]: some = FALSE is SQL NULL / Python None.            *)
(***************************************************************************)
NoNorm      == [some |-> FALSE, q |-> QInt(0)]
SomeNorm(q) == [some |-> TRUE,  q |-> q]

Lines == {"A3", "A4"}

SapCatalog ==
    { [id |-> 1, sap_code |-> "P1", product_name |-> "N1",
       norm_a3_per_employee |-> SomeNorm(QInt(100)),
       norm_a4_per_employee |-> SomeNorm(QInt(120))],
      [id |-> 2, sap_code |-> "P2", product_name |-> "N2",
       norm_a3_per_employee |-> SomeNorm(QInt(15)),
       norm_a4_per_employee |-> NoNorm],
      [id |-> 3, sap_code |-> "P3", product_name |-> "N3",
       norm_a3_per_employee |-> NoNorm,
       norm_a4_per_employee |-> SomeNorm(Q(21, 2))] }

CatalogCodes == { x.sap_code : x \in SapCatalog }

\* sap_by_code.get(code): the catalog item, or a miss.
HasItem(code) == code \in CatalogCodes
ItemOf(code)  == CHOOSE x \in SapCatalog : x.sap_code = code

\* (mutant of NormOf: the A3 norm on every line)
NormOfA3(item, line) == item.norm_a3_per_employee

NormOf(item, line) ==
    IF line = "A3" THEN item.norm_a3_per_employee ELSE item.norm_a4_per_employee

(***************************************************************************)
(* int(round(base_norm * (1 - disc/100))).  The product is a float: where  *)
(* its exact value is a tie k + 1/2 the float may fall on either side of   *)
(* it, and round() then goes to that side instead of to the even           *)
(* neighbour.  FloatTieFlips lists the <<norm.n, norm.d, disc>> of the     *)
(* catalog's norms and discounts -5..107 where IEEE double arithmetic does *)
(* so (15 * (1 - 70/100) = 4.500000000000001, 15 * (1 - 90/100) =          *)
(* 1.4999999999999996).                                                    *)
(***************************************************************************)
FloatTieFlips == { <<15, 1, 70>>, <<15, 1, 90>> }

PyRound(x, flip) ==
    IF QIsTie(x) /\ flip THEN OtherNeighbour(x) ELSE RoundHalfEven(x)

DiscountFactor(disc) == Q(100 - disc, 100)

\* (mutant of norm_with_discount: int() truncation without round())
norm_with_discount_floor(base_norm, disc) ==
    QFloor(QMul(base_norm, DiscountFactor(disc)))

norm_with_discount(base_norm, disc) ==
    PyRound(QMul(base_norm, DiscountFactor(disc)),
            <<base_norm.n, base_norm.d, disc>> \in FloatTieFlips)

(***************************************************************************)
(* normalize_task_row(line, row, sap_by_code).  A raw row is               *)
(* [sap_code, discount_percent, qty_made, count_by_norm]; sap_code is a    *)
(* code, "" or NoCode (None / key absent).  The result carries the fields  *)
(* the function sets.                                                      *)
(***************************************************************************)
NoCode == "<None>"

NotProduced(name, line) == name \o " (not produced on " \o line \o ")"

\* (mutant of CodeOrEmpty: the code is returned as it was given)
CodeAsGiven(code) == code

\* Line 45: code or ""
CodeOrEmpty(code) == IF code = NoCode THEN "" ELSE code

normalize_task_row(line, row) ==
    LET code == row.sap_code
        hit  == code # NoCode /\ HasItem(code)
        norm == IF hit THEN NormOf(ItemOf(code), line) ELSE NoNorm
        name == IF ~hit THEN ""
                ELSE IF norm.some THEN ItemOf(code).product_name
                ELSE NotProduced(ItemOf(code).product_name, line)
        base == IF hit /\ norm.some THEN norm.q ELSE QInt(0)
        disc == to_int_safe(row.discount_percent, 0)
    IN  [ sap_code           |-> CodeOrEmpty(code),
          product_name       |-> name,
          norm_per_employee  |-> base,
          norm_with_discount |-> norm_with_discount(base, disc),
          qty_made           |-> to_int_safe(row.qty_made, 0),
          count_by_norm      |-> PyTruthy(row.count_by_norm),
          discount_percent   |-> disc ]

(***************************************************************************)
(* The report store (utils/database.py).  A database state is a record of  *)
(* the tables' rows; the serial sequences live outside of it, a rollback   *)
(* does not return their values.                                           *)
(***************************************************************************)
EmptyDb ==
    [ reports |-> {}, tasks |-> {}, emps |-> {}, sups |-> {},
      employees |-> { [id |-> 1, fio |-> "Ann"], [id |-> 2, fio |-> "Bob"] } ]

ZeroSeq == [ reports |-> 0, tasks |-> 0, emps |-> 0, sups |-> 0 ]

CatalogIds == { x.id : x \in SapCatalog }
CatalogRow(sap_id) == CHOOSE x \in SapCatalog : x.id = sap_id

\* The reports row of (site, date): the key is unique, ON CONFLICT
\* (site_id, report_date) names its index.
ReportRows(d, key) ==
    { r \in d.reports : r.site_id = key[1] /\ r.report_date = key[2] }

HasReport(d, key) == ReportRows(d, key) # {}
ReportId(d, key)  == (CHOOSE r \in ReportRows(d, key) : TRUE).id

(***************************************************************************)
(* A transaction's uncommitted writes.  hdr: what statement 1 did to the   *)
(* reports row; del: the child tables its DELETEs ran on; tasks, emps,     *)
(* sups: the rows it inserted; employees: the employees rows it upserted.  *)
(***************************************************************************)
NoWrites ==
    [ hdr |-> "none", key |-> <<0, 0>>, rid |-> 0, del |-> {},
      tasks |-> {}, emps |-> {}, sups |-> {}, employees |-> {} ]

\* (mutant of UpsertEmployee: ON CONFLICT (id) DO NOTHING)
InsertEmployeeOnce(employees, id, fio) ==
    IF \E e \in employees : e.id = id THEN employees
    ELSE employees \cup { [id |-> id, fio |-> fio] }

\* INSERT INTO employees ... ON CONFLICT (id) DO UPDATE SET fio
UpsertEmployee(employees, id, fio) ==
    { e \in employees : e.id # id } \cup { [id |-> id, fio |-> fio] }

RECURSIVE UpsertEmployees(_, _)
UpsertEmployees(employees, rows) ==
    IF rows = {} THEN employees
    ELSE LET e == CHOOSE x \in rows : TRUE
         IN  UpsertEmployees(UpsertEmployee(employees, e.id, e.fio), rows \ {e})

\* What the transaction's own statements see, and what its commit leaves.
Visible(d, ws) ==
    [ reports   |-> IF ws.hdr = "inserted"
                    THEN d.reports \cup { [id |-> ws.rid, site_id |-> ws.key[1],
                                            report_date |-> ws.key[2]] }
                    ELSE d.reports,
      tasks     |-> { r \in d.tasks : ~("tasks" \in ws.del /\ r.report_id = ws.rid) }
                    \cup ws.tasks,
      emps      |-> { r \in d.emps : ~("emps" \in ws.del /\ r.report_id = ws.rid) }
                    \cup ws.emps,
      sups      |-> { r \in d.sups : ~("sups" \in ws.del /\ r.report_id = ws.rid) }
                    \cup ws.sups,
      employees |-> UpsertEmployees(d.employees, ws.employees) ]

\* (mutant of Rollback: the statements were applied one by one, outside of
\* a transaction, and stay)
RollbackKeepsWrites(d, ws) == Visible(d, ws)

\* What leaving the with block by an exception leaves (line 148,
\* engine.begin()): none of the transaction's writes.
Rollback(d, ws) == d

\* (mutant of HeaderStmt: a plain INSERT, without ON CONFLICT)
HeaderStmtPlainInsert(d, ws, key, newid) ==
    [ws EXCEPT !.hdr = "inserted", !.key = key, !.rid = newid]

\* Statement 1 (lines 149-155): INSERT INTO reports ... ON CONFLICT DO
\* UPDATE ... RETURNING id.  newid is the sequence value the INSERT drew.
HeaderStmt(d, ws, key, newid) ==
    IF HasReport(d, key)
    THEN [ws EXCEPT !.hdr = "updated", !.key = key, !.rid = ReportId(d, key)]
    ELSE [ws EXCEPT !.hdr = "inserted", !.key = key, !.rid = newid]

\* (mutant of DeleteStmt: the DELETE is left out)
DeleteStmtSkipped(ws, table) == ws

\* Lines 158-160: DELETE FROM <table> WHERE report_id = :rid
DeleteStmt(ws, table) == [ws EXCEPT !.del = @ \cup {table}]

\* Lines 164-169.  The row names a catalog id: sap_id references
\* sap_catalog, an unknown id makes the INSERT raise.
TaskInsertable(t) == t.sap_id \in CatalogIds

InsertTaskStmt(ws, t, newid) ==
    [ws EXCEPT !.tasks = @ \cup
        { [ id |-> newid, report_id |-> ws.rid, line |-> t.line, sap_id |-> t.sap_id,
            qty_made |-> t.qty_made, count_by_norm |-> t.count_by_norm,
            discount_percent |-> t.discount_percent ] }]

\* Lines 174-182: the employees upsert and the INSERT of one line employee.
InsertLineEmpStmt(ws, le, newid) ==
    [ws EXCEPT
       !.employees = UpsertEmployee(@, le.employee_id, le.fio),
       !.emps = @ \cup
        { [ id |-> newid, report_id |-> ws.rid, employee_id |-> le.employee_id,
            fio |-> le.fio, work_time |-> le.work_time, line |-> le.line ] }]

\* Lines 186-194: the employees upsert and the INSERT of one support role.
InsertSupportStmt(ws, s, newid) ==
    [ws EXCEPT
       !.employees = UpsertEmployee(@, s.employee_id, s.fio),
       !.sups = @ \cup
        { [ id |-> newid, report_id |-> ws.rid, role |-> s.role,
            employee_id |-> s.employee_id, fio |-> s.fio,
            work_time |-> s.work_time ] }]

(***************************************************************************)
(* upsert_report as one transaction that runs to its commit: the           *)
(* statements in their order, each INSERT drawing the next sequence value. *)
(* The result is [ok, d, sq]; an INSERT that raises rolls everything     *)
(* back except the sequences.                                              *)
(***************************************************************************)
RECURSIVE InsertTasks(_, _, _)
InsertTasks(ws, tasks, prev) ==
    IF tasks = <<>> THEN ws
    ELSE InsertTasks(InsertTaskStmt(ws, Head(tasks), prev + 1), Tail(tasks), prev + 1)

RECURSIVE InsertLineEmps(_, _, _)
InsertLineEmps(ws, emps, prev) ==
    IF emps = <<>> THEN ws
    ELSE InsertLineEmps(InsertLineEmpStmt(ws, Head(emps), prev + 1),
                        Tail(emps), prev + 1)

RECURSIVE InsertSupports(_, _, _)
InsertSupports(ws, sups, prev) ==
    IF sups = <<>> THEN ws
    ELSE InsertSupports(InsertSupportStmt(ws, Head(sups), prev + 1),
                        Tail(sups), prev + 1)

\* The tasks an upsert inserts before one raises (all, if none does).
RECURSIVE InsertablePrefix(_)
InsertablePrefix(tasks) ==
    IF tasks = <<>> \/ ~TaskInsertable(Head(tasks)) THEN <<>>
    ELSE <<Head(tasks)>> \o InsertablePrefix(Tail(tasks))

upsert_report(d, sq, key, tasks, emps, sups) ==
    LET w1 == HeaderStmt(d, NoWrites, key, sq.reports + 1)
        w2 == DeleteStmt(DeleteStmt(DeleteStmt(w1, "tasks"), "emps"), "sups")
        ok == InsertablePrefix(tasks) = tasks
        w3 == InsertTasks(w2, InsertablePrefix(tasks), sq.tasks)
        w4 == InsertLineEmps(w3, emps, sq.emps)
        w5 == InsertSupports(w4, sups, sq.sups)
    IN  IF ok
        THEN [ ok  |-> TRUE,
               db  |-> Visible(d, w5),
               seq |-> [ reports |-> sq.reports + 1,
                         tasks   |-> sq.tasks + Len(tasks),
                         emps    |-> sq.emps + Len(emps),
                         sups    |-> sq.sups + Len(sups) ] ]
        ELSE [ ok  |-> FALSE,
               db  |-> Rollback(d, w3),
               seq |-> [ sq EXCEPT !.reports = @ + 1,
                                    !.tasks = @ + Len(InsertablePrefix(tasks)) + 1 ] ]

(***************************************************************************)
(* delete_report (lines 196-201): DELETE FROM reports WHERE site_id = :s   *)
(* AND report_date = :d.  The rows of the child tables that reference the  *)
(* deleted report go with it (ON DELETE CASCADE of their report_id).       *)
(***************************************************************************)
\* (mutant of DeletedReports: the date is left out of the WHERE clause)
DeletedReportsBySite(d, key) == { r \in d.reports : r.site_id = key[1] }

DeletedReports(d, key) == ReportRows(d, key)

CascadeChildren(d, gone) ==
    [ d EXCEPT !.tasks = { r \in @ : r.report_id \notin gone },
                !.emps  = { r \in @ : r.report_id \notin gone },
                !.sups  = { r \in @ : r.report_id \notin gone } ]

delete_report(d, key) ==
    LET rows == DeletedReports(d, key)
    IN  CascadeChildren([d EXCEPT !.reports = @ \ rows], { r.id : r \in rows })

(***************************************************************************)
(* get_report (lines 91-143), evaluated on one committed state.  The rows  *)
(* of a result are sequences in the order of the ORDER BY.  ORDER BY role  *)
(* leaves the order of two support rows of one role open; they are put in  *)
(* the order of their ids, and no report of the model has two such rows    *)
(* (add_support_role admits one row per role).  The norm columns are       *)
(* computed in SQL on numeric values: exact, ROUND half away from zero.    *)
(***************************************************************************)
SqlRound(x) ==
    IF x.n >= 0 THEN (2 * x.n + x.d) \div (2 * x.d)
    ELSE 0 - ((2 * (0 - x.n) + x.d) \div (2 * x.d))

SqlNull   == [some |-> FALSE, q |-> QInt(0)]
SqlVal(q) == [some |-> TRUE, q |-> q]

A3Factor == Q(7, 10)

\* CASE WHEN t.line = 'A3' THEN ROUND(sc.norm_a3_per_employee * 0.7)::int
\*      WHEN t.line = 'A4' THEN sc.norm_a4_per_employee ELSE 0 END
SqlNormPerEmployee(line, sc) ==
    CASE line = "A3" ->
            IF sc.norm_a3_per_employee.some
            THEN SqlVal(QInt(SqlRound(QMul(sc.norm_a3_per_employee.q, A3Factor))))
            ELSE SqlNull
      [] line = "A4" -> sc.norm_a4_per_employee
      [] OTHER -> SqlVal(QInt(0))

\* CASE WHEN t.line = 'A3' THEN ROUND(norm_a3 * 0.7 * (1 - d/100.0))::int
\*      WHEN t.line = 'A4' THEN ROUND(norm_a4 * (1 - d/100.0))::int ELSE 0 END
SqlNormWithDiscount(line, sc, disc) ==
    CASE line = "A3" ->
            IF sc.norm_a3_per_employee.some
            THEN SqlVal(QInt(SqlRound(QMul(QMul(sc.norm_a3_per_employee.q, A3Factor),
                                           DiscountFactor(disc)))))
            ELSE SqlNull
      [] line = "A4" ->
            IF sc.norm_a4_per_employee.some
            THEN SqlVal(QInt(SqlRound(QMul(sc.norm_a4_per_employee.q,
                                           DiscountFactor(disc)))))
            ELSE SqlNull
      [] OTHER -> SqlVal(QInt(0))

\* A set of rows as the sequence ordered by rank, then id.
RECURSIVE OrderedBy(_)
OrderedBy(keyed) ==
    IF keyed = {} THEN <<>>
    ELSE LET first == CHOOSE x \in keyed :
                        \A y \in keyed :
                           x.rank < y.rank \/ (x.rank = y.rank /\ x.row.id <= y.row.id)
         IN  <<first.row>> \o OrderedBy(keyed \ {first})

LineRank(line) == IF line = "A3" THEN 1 ELSE 2
RoleRank(role) == IF role = "repair" THEN 1 ELSE 2

\* SELECT ... FROM report_tasks t JOIN sap_catalog sc ON sc.id = t.sap_id
TaskResultRow(t) ==
    LET sc == CatalogRow(t.sap_id)
    IN  [ id |-> t.id, line |-> t.line, sap_id |-> t.sap_id,
          sap_code |-> sc.sap_code, product_name |-> sc.product_name,
          norm_per_employee |-> SqlNormPerEmployee(t.line, sc),
          qty_made |-> t.qty_made, count_by_norm |-> t.count_by_norm,
          discount_percent |-> t.discount_percent,
          norm_with_discount |-> SqlNormWithDiscount(t.line, sc, t.discount_percent) ]

LineEmpResultRow(r) ==
    [ id |-> r.id, employee_id |-> r.employee_id, fio |-> r.fio,
      work_time |-> r.work_time, line |-> r.line ]

SupportResultRow(r) ==
    [ id |-> r.id, role |-> r.role, employee_id |-> r.employee_id, fio |-> r.fio,
      work_time |-> r.work_time ]

NoReport == [ found |-> FALSE, id |-> 0, tasks |-> <<>>, line_emps |-> <<>>,
              supports |-> <<>> ]

get_report(d, key) ==
    IF ~HasReport(d, key) THEN NoReport
    ELSE
      LET rid == ReportId(d, key)
      IN  [ found |-> TRUE,
            id |-> rid,
            tasks |-> OrderedBy({ [rank |-> LineRank(t.line), row |-> TaskResultRow(t)] :
                                  t \in { x \in d.tasks :
                                            x.report_id = rid /\ x.sap_id \in CatalogIds } }),
            line_emps |-> OrderedBy({ [rank |-> 0, row |-> LineEmpResultRow(r)] :
                                      r \in { x \in d.emps : x.report_id = rid } }),
            supports |-> OrderedBy({ [rank |-> RoleRank(r.role), row |-> SupportResultRow(r)] :
                                     r \in { x \in d.sups : x.report_id = rid } }) ]

(***************************************************************************)
(* The clients of the store: what they save, and the state in which the   *)
(* store and its clients start.                                            *)
(***************************************************************************)
MaxSaves == 2       \* upsert_report is called at most MaxSaves times

Clients == {"c1", "c2"}

StoreKeys == { <<1, 1>>, <<1, 2>> }

Task1 == [line |-> "A3", sap_id |-> 1, qty_made |-> 7, count_by_norm |-> FALSE,
          discount_percent |-> 30]
Task2 == [line |-> "A4", sap_id |-> 3, qty_made |-> 50, count_by_norm |-> TRUE,
          discount_percent |-> 0]
TaskNoProduct == [line |-> "A3", sap_id |-> 9, qty_made |-> 1, count_by_norm |-> TRUE,
                  discount_percent |-> 0]
Emp1  == [employee_id |-> 1, fio |-> "Ann", work_time |-> QInt(8), line |-> "A3"]
Emp1b == [employee_id |-> 1, fio |-> "Anna", work_time |-> Q(15, 2), line |-> "A4"]
Sup2  == [role |-> "senior", employee_id |-> 2, fio |-> "Bob", work_time |-> QInt(8)]

\* The (tasks, line_emps, supports) the clients save.
Payloads ==
    { [tasks |-> <<>>, line_emps |-> <<>>, supports |-> <<>>],
      [tasks |-> <<Task1, Task2>>, line_emps |-> <<Emp1>>, supports |-> <<Sup2>>],
      [tasks |-> <<Task2>>, line_emps |-> <<Emp1b>>, supports |-> <<>>],
      [tasks |-> <<Task2, TaskNoProduct>>, line_emps |-> <<>>, supports |-> <<>>] }

NoPayload == [tasks |-> <<>>, line_emps |-> <<>>, supports |-> <<>>]

\* ov (history): another client's call for the same (site, date) was open
\* while this one was.
IdleTx == [pc |-> "idle", key |-> <<0, 0>>, payload |-> NoPayload, i |-> 1,
           ws |-> NoWrites, ov |-> FALSE]

Never == [st |-> "never", payload |-> NoPayload, n |-> 0, over |-> FALSE,
          by |-> "", ov |-> FALSE, raced |-> FALSE]

StoreIdle ==
    /\ db = EmptyDb /\ seq = ZeroSeq
    /\ tx = [c \in Clients |-> IdleTx]
    /\ last = [k \in StoreKeys |-> Never]
    /\ ev = [op |-> "init", c |-> "c1", key |-> <<0, 0>>]
    /\ calls = 0

(***************************************************************************)
(* The report page (pages/reports.py) as it is after its first script run: *)
(* the default site and date, an empty working set.  The site the page      *)
(* names 'Катюша' is written "Katyusha".                                    *)
(***************************************************************************)
TaskSite == "Katyusha"

Sites == { "Katyusha", "Other" }

SiteId(name) == IF name = "Katyusha" THEN 1 ELSE 2

Dates == { 1, 2 }

Today == 1

PageEvent(op, ok) == [op |-> op, ok |-> ok]

PageIdle ==
    /\ site_name = TaskSite
    /\ rep_date = Today
    /\ tasks_A3 = <<>> /\ tasks_A4 = <<>>
    /\ line_emps = <<>> /\ supports = <<>>
    /\ prefilled = FALSE
    /\ confirm_delete = FALSE
    /\ asked_for = <<0, 0>>
    /\ pev = PageEvent("load", TRUE)

(***************************************************************************)
(* SpecNorm: normalize_task_row on every raw row of a bounded domain.      *)
(***************************************************************************)
MaxDiscount == 100      \* the valid discounts are 0..100
MaxOver     == 2        \* raw discounts reach MaxOver outside 0..100
MaxQty      == 2        \* raw quantities are -1..MaxQty

NoRow == [ sap_code |-> "", product_name |-> "", norm_per_employee |-> QInt(0),
           norm_with_discount |-> 0, qty_made |-> 0, count_by_norm |-> FALSE,
           discount_percent |-> 0 ]

RawCodes     == {NoCode, "", "PX"} \cup CatalogCodes
RawJunk      == {PyNone, PyNaN, PyBlank, PyBad}
RawDiscounts == RawJunk \cup { PyInt(i) : i \in (0 - MaxOver)..(MaxDiscount + MaxOver) }
RawQtys      == RawJunk \cup { PyInt(i) : i \in (0 - 1)..MaxQty }
RawFlags     == {PyNone, PyBool(TRUE), PyBool(FALSE)}

RawRows == [ sap_code : RawCodes, discount_percent : RawDiscounts,
             qty_made : RawQtys, count_by_norm : RawFlags ]

\* The result of calculate_line_statistics; raised: the call ended with an
\* exception.
NoStatistics ==
    [ raised |-> FALSE,
      counts |-> [A3 |-> 0, A4 |-> 0], hours |-> [A3 |-> QInt(0), A4 |-> QInt(0)],
      total_count |-> 0, total_hours |-> QInt(0) ]

LineIdle == lEmps = <<>> /\ lOut = NoStatistics /\ lPc = "idle"

\* The session before the first ensure_row_ids / next_seq: no counter key.
NoCounter == 0 - 1

\* A row without the key 'row_id' (the counter's values start at 1).
NoRowId == 0

SeqIdle == qSeq = NoCounter /\ qRows = <<>> /\ qSeen = {} /\ qOp = "idle"

SumIdle ==
    /\ sA3 = <<>> /\ sA4 = <<>>
    /\ sHours = [l \in Lines |-> QInt(0)]
    /\ sOut = <<>> /\ sPc = "idle"
    /\ LineIdle
    /\ SeqIdle

NormIdle ==
    /\ nLine = "A3"
    /\ nRow = [ sap_code |-> NoCode, discount_percent |-> PyNone,
                qty_made |-> PyNone, count_by_norm |-> PyNone ]
    /\ nOut = NoRow /\ nPc = "idle"

NormInit ==
    /\ nLine \in Lines
    /\ nRow \in RawRows
    /\ nOut = NoRow
    /\ nPc = "call"
    /\ SumIdle
    /\ StoreIdle
    /\ PageIdle

NormalizeTaskRow ==
    /\ nPc = "call"
    /\ nOut' = normalize_task_row(nLine, nRow)
    /\ nPc' = "done"
    /\ UNCHANGED <<nLine, nRow, sumVars, storeVars, pageVars>>

NormNext == NormalizeTaskRow

SpecNorm == NormInit /\ [][NormNext]_vars

(***************************************************************************)
(* C1.  For an integer discount d in 0..100 and the base norm b the row    *)
(* resolves to (b >= 0), norm_with_discount is round(b * (1 - d/100)): an  *)
(* integer nearest to the exact value; it is 0 when d = 100 and, when      *)
(* d = 0, it is round(b), which is b itself when b is a whole number.      *)
(***************************************************************************)
C1_Case ==
    /\ nPc = "done"
    /\ nRow.discount_percent.k = "int"
    /\ nRow.discount_percent.v \in 0..MaxDiscount

\* n is an integer nearest to the rational x: |n - x| <= 1/2.
IsNearest(n, x) == 2 * Abs(n * x.d - x.n) <= x.d

C1_Rounded ==
    LET b == nOut.norm_per_employee
        d == nRow.discount_percent.v
    IN  /\ ~QLess(b, QInt(0))
        /\ IsNearest(nOut.norm_with_discount, QMul(b, Q(100 - d, 100)))
        /\ d = MaxDiscount => nOut.norm_with_discount = 0

C1_NormWithDiscount ==
    C1_Case =>
        /\ C1_Rounded
        /\ nRow.discount_percent.v = 0 =>
              /\ IsNearest(nOut.norm_with_discount, nOut.norm_per_employee)
              /\ nOut.norm_per_employee.d = 1 =>
                    nOut.norm_with_discount = nOut.norm_per_employee.n

\* The claim as written: with no discount the result is the base norm.
C1_Original ==
    C1_Case =>
        /\ C1_Rounded
        /\ nRow.discount_percent.v = 0 =>
              QInt(nOut.norm_with_discount) = nOut.norm_per_employee

\* A discounted whole norm, a tie that the float product resolves, and a
\* fractional norm without discount have all been normalized.
C1_Witness ==
    /\ C1_Case
    /\ nRow.sap_code = "P2" /\ nLine = "A3"
    /\ nRow.discount_percent.v = 70
    /\ nOut.norm_with_discount = 5

(***************************************************************************)
(* calculate_product_summary(tasks_A3, tasks_A4, line_hours).  A task row  *)
(* is [sap_code, product_name, norm_with_discount, count_by_norm,          *)
(* qty_made]; count_by_norm is a Python value (it may be absent).          *)
(***************************************************************************)
ShiftHours == 12

\* (mutant of SummaryKey: grouping by the code alone)
SummaryKeyCodeOnly(task) == task.sap_code

SummaryKey(task) == task.sap_code \o " - " \o task.product_name

\* What one row adds to its product's total for its line (lines 126-134).
\* (mutant of Contribution: the hours guard of line 129 dropped and the
\*  row's own quantity used as the hours)
ContributionOwnQty(task, hours) ==
    IF ~PyTruthy(PyGet(task.count_by_norm, PyBool(TRUE)))
    THEN QMul(QDiv(QInt(task.norm_with_discount), QInt(ShiftHours)),
              QInt(task.qty_made))
    ELSE QInt(task.qty_made)

\* (mutant of Contribution: the norm formula applied to every row)
ContributionAlwaysNorm(task, hours) ==
    IF QLess(QInt(0), hours)
    THEN QMul(QDiv(QInt(task.norm_with_discount), QInt(ShiftHours)), hours)
    ELSE QInt(0)

\* (mutant of Contribution: the hours guard of line 129 replaced by the
\*  reference shift)
ContributionNoGuard(task, hours) ==
    IF ~PyTruthy(PyGet(task.count_by_norm, PyBool(TRUE)))
    THEN IF QLess(QInt(0), hours)
         THEN QMul(QDiv(QInt(task.norm_with_discount), QInt(ShiftHours)), hours)
         ELSE QInt(task.norm_with_discount)
    ELSE QInt(task.qty_made)

Contribution(task, hours) ==
    IF ~PyTruthy(PyGet(task.count_by_norm, PyBool(TRUE)))
    THEN IF QLess(QInt(0), hours)
         THEN QMul(QDiv(QInt(task.norm_with_discount), QInt(ShiftHours)), hours)
         ELSE QInt(0)
    ELSE QInt(task.qty_made)

NewEntry(key) ==
    [key |-> key, A3 |-> QInt(0), A4 |-> QInt(0), qty_A3 |-> 0, qty_A4 |-> 0]

IndexOfKey(acc, key) ==
    IF \E i \in 1..Len(acc) : acc[i].key = key
    THEN CHOOSE i \in 1..Len(acc) : acc[i].key = key
    ELSE 0

\* One iteration of the inner loop (lines 114-141): product_summary, an
\* insertion-ordered dict, is the sequence acc of its entries.
SummaryAddTask(acc, line_name, task, hours) ==
    IF task.sap_code = "" THEN acc
    ELSE
      LET key  == SummaryKey(task)
          acc1 == IF IndexOfKey(acc, key) = 0 THEN Append(acc, NewEntry(key)) ELSE acc
          i    == IndexOfKey(acc1, key)
          e    == acc1[i]
          c    == Contribution(task, hours[line_name])
      IN  [acc1 EXCEPT ![i] =
             IF line_name = "A3"
             THEN [e EXCEPT !.A3 = QAdd(e.A3, c), !.qty_A3 = e.qty_A3 + task.qty_made]
             ELSE [e EXCEPT !.A4 = QAdd(e.A4, c), !.qty_A4 = e.qty_A4 + task.qty_made]]

RECURSIVE SummaryAddTasks(_, _, _, _)
SummaryAddTasks(acc, line_name, tasks, hours) ==
    IF tasks = <<>> THEN acc
    ELSE SummaryAddTasks(SummaryAddTask(acc, line_name, Head(tasks), hours),
                  line_name, Tail(tasks), hours)

ProductSummary(a3, a4, hours) ==
    SummaryAddTasks(SummaryAddTasks(<<>>, "A3", a3, hours), "A4", a4, hours)

\* int(round(x)) of a float sum: the sum carries rounding error, so where
\* its exact value is a tie the result is either neighbour.
PyRoundSum(x) ==
    IF QIsTie(x) THEN {QFloor(x), QFloor(x) + 1} ELSE {RoundHalfEven(x)}

\* The rows summary_data may hold for one entry (lines 146-156).
SummaryRows(e) ==
    { [product   |-> e.key,
       A3_norm   |-> a3,
       A4_norm   |-> a4,
       total_norm |-> t,
       A3_qty    |-> e.qty_A3,
       A4_qty    |-> e.qty_A4,
       total_qty |-> e.qty_A3 + e.qty_A4] :
      a3 \in PyRoundSum(e.A3), a4 \in PyRoundSum(e.A4),
      t \in PyRoundSum(QAdd(e.A3, e.A4)) }

RECURSIVE SummaryData(_)
SummaryData(acc) ==
    IF acc = <<>> THEN { <<>> }
    ELSE { <<r>> \o rest : r \in SummaryRows(Head(acc)), rest \in SummaryData(Tail(acc)) }

\* The results calculate_product_summary may return.
calculate_product_summary(a3, a4, hours) ==
    SummaryData(ProductSummary(a3, a4, hours))

(***************************************************************************)
(* SpecSum: calculate_product_summary on every pair of task lists of a     *)
(* bounded domain.                                                         *)
(***************************************************************************)
MaxRows == 2        \* the two task lists hold at most MaxRows rows together

\* The spec's scenario: norm A3 = 100 with discount 30.
ScenarioNorm == norm_with_discount(QInt(100), 30)

SumProducts == { <<"P1", "N1">>, <<"P1", "">> }

SumRows ==
    { [sap_code |-> "", product_name |-> "", norm_with_discount |-> 5,
       count_by_norm |-> PyBool(FALSE), qty_made |-> 7] }
    \cup
    { [sap_code |-> p[1], product_name |-> p[2], norm_with_discount |-> n,
       count_by_norm |-> c, qty_made |-> q] :
      p \in SumProducts, n \in {ScenarioNorm, 5},
      c \in {PyBool(TRUE), PyBool(FALSE), PyAbsent}, q \in {7, 50} }

SumHours ==
    { [l \in Lines |-> IF l = "A3" THEN a ELSE b] :
      a \in {QInt(0), QInt(16)}, b \in {QInt(0), Q(15, 2)} }

SumInit ==
    /\ \E n3 \in 0..MaxRows : \E n4 \in 0..(MaxRows - n3) :
          /\ sA3 \in [1..n3 -> SumRows]
          /\ sA4 \in [1..n4 -> SumRows]
    /\ sHours \in SumHours
    /\ sOut = <<>>
    /\ sPc = "build"
    /\ LineIdle
    /\ SeqIdle
    /\ NormIdle
    /\ StoreIdle
    /\ PageIdle

CalculateProductSummary ==
    /\ sPc = "build"
    /\ sOut' \in calculate_product_summary(sA3, sA4, sHours)
    /\ sPc' = "done"
    /\ UNCHANGED <<sA3, sA4, sHours, lineVars, seqVars, normVars, storeVars, pageVars>>

SumNext == CalculateProductSummary

SpecSum == SumInit /\ [][SumNext]_vars

\* ---- what the claims about the summary speak of, stated on the inputs
SumTasks(line) == IF line = "A3" THEN sA3 ELSE sA4

\* The rows of a line that belong to the product pair <<code, name>>.
RowsOf(line, pair) ==
    { i \in 1..Len(SumTasks(line)) :
        /\ SumTasks(line)[i].sap_code = pair[1]
        /\ SumTasks(line)[i].product_name = pair[2] }

ByNorm(task) == task.count_by_norm = PyBool(TRUE)
ByHours(task) == task.count_by_norm = PyBool(FALSE)

\* What a row counts for in a sum: its quantity ("qty"), its quantity if
\* the row is not counted by hours ("qty_by_norm"), its discounted norm if
\* it is counted by hours ("norm_by_hours").
Term(task, what) ==
    CASE what = "qty"           -> task.qty_made
      [] what = "qty_by_norm"   -> IF ByHours(task) THEN 0 ELSE task.qty_made
      [] what = "norm_by_hours" -> IF ByHours(task) THEN task.norm_with_discount ELSE 0

RECURSIVE SumOver(_, _, _)
SumOver(tasks, idx, what) ==
    IF idx = {} THEN 0
    ELSE LET i == CHOOSE j \in idx : TRUE
         IN  Term(tasks[i], what) + SumOver(tasks, idx \ {i}, what)

\* The product pairs that get a summary entry, and the entry of a pair.
SumAllRows == { sA3[i] : i \in 1..Len(sA3) } \cup { sA4[i] : i \in 1..Len(sA4) }

PairsIn == { <<t.sap_code, t.product_name>> : t \in { u \in SumAllRows : u.sap_code # "" } }

LineNorm(row, line) == IF line = "A3" THEN row.A3_norm ELSE row.A4_norm
LineQty(row, line)  == IF line = "A3" THEN row.A3_qty ELSE row.A4_qty

\* The summary rows that show a pair's quantities on both lines.
EntriesOf(pair) ==
    { r \in 1..Len(sOut) :
        \A l \in Lines :
           LineQty(sOut[r], l) = SumOver(SumTasks(l), RowsOf(l, pair), "qty") }

\* The summary row labelled with the pair ("code - name"), 0 if none.
RowFor(pair) ==
    LET label == pair[1] \o " - " \o pair[2]
    IN  IF \E r \in 1..Len(sOut) : sOut[r].product = label
        THEN CHOOSE r \in 1..Len(sOut) : sOut[r].product = label
        ELSE 0

\* The exact total of a pair on a line when every by-hours row of the line
\* is weighted with the line's one hours figure.
ExactTotal(line, pair) ==
    QAdd(QMul(Q(SumOver(SumTasks(line), RowsOf(line, pair), "norm_by_hours"), ShiftHours),
              sHours[line]),
         QInt(SumOver(SumTasks(line), RowsOf(line, pair), "qty_by_norm")))

(***************************************************************************)
(* C2.  Every row with count_by_norm = false adds (norm_with_discount /    *)
(* 12) * H to its product's total for its line, H being the line's hours   *)
(* in line_hours, the same for all such rows of the line: the line total   *)
(* shown is the rounded sum (sum of those norms) / 12 * H + (quantities of *)
(* the other rows).  Norm 100, discount 30, 16 hours: 70 and 93.           *)
(***************************************************************************)
C2_ByHoursContribution ==
    sPc = "done" =>
        /\ ScenarioNorm = 70
        /\ \A pair \in PairsIn :
              /\ RowFor(pair) # 0
              /\ \A l \in Lines :
                    IsNearest(LineNorm(sOut[RowFor(pair)], l), ExactTotal(l, pair))
              /\ IsNearest(sOut[RowFor(pair)].total_norm,
                           QAdd(ExactTotal("A3", pair), ExactTotal("A4", pair)))

C2_Witness ==
    /\ sPc = "done"
    /\ sHours["A3"] = QInt(16)
    /\ Len(sA3) = 1 /\ Len(sA4) = 0
    /\ sA3[1].sap_code = "P1" /\ sA3[1].norm_with_discount = 70
    /\ ByHours(sA3[1])
    /\ sOut[1].A3_norm = 93

(***************************************************************************)
(* C3.  When every row has count_by_norm = true, each product's total for  *)
(* a line is the sum of the qty_made of its rows on that line, whatever    *)
(* the norms and the hours are.                                            *)
(***************************************************************************)
C3_ByNormIsQuantity ==
    (sPc = "done" /\ \A t \in SumAllRows : ByNorm(t)) =>
        \A pair \in PairsIn :
           /\ RowFor(pair) # 0
           /\ \A l \in Lines :
                 LineNorm(sOut[RowFor(pair)], l)
                    = SumOver(SumTasks(l), RowsOf(l, pair), "qty")

C3_Witness ==
    /\ sPc = "done"
    /\ \A t \in SumAllRows : ByNorm(t)
    /\ Len(sA4) = 1 /\ sA4[1].qty_made = 50 /\ sA4[1].sap_code = "P1"
    /\ sA4[1].norm_with_discount = 70
    /\ QLess(QInt(0), sHours["A4"])
    /\ sOut[1].A4_norm = 50

(***************************************************************************)
(* C4.  On a line whose hours are 0 a row with count_by_norm = false adds  *)
(* exactly 0: the line total of its product is the quantity of the         *)
(* product's other rows alone.                                             *)
(***************************************************************************)
C4_ZeroHoursZero ==
    sPc = "done" =>
        \A l \in Lines : sHours[l] = QInt(0) =>
           \A pair \in PairsIn :
              /\ RowFor(pair) # 0
              /\ LineNorm(sOut[RowFor(pair)], l)
                    = SumOver(SumTasks(l), RowsOf(l, pair), "qty_by_norm")

C4_Witness ==
    /\ sPc = "done"
    /\ sHours["A3"] = QInt(0)
    /\ Len(sA3) = 2
    /\ ByHours(sA3[1]) /\ sA3[1].norm_with_discount = 70 /\ sA3[1].sap_code = "P1"
    /\ ByHours(sA3[2]) /\ sA3[2].norm_with_discount = 5
    /\ sA3[2].product_name = sA3[1].product_name /\ sA3[2].sap_code = "P1"
    /\ Len(sOut) = 1 /\ sOut[1].A3_norm = 0

(***************************************************************************)
(* C5.  The summary has one entry per pair (product code, display name):   *)
(* rows with the same code and different names get separate entries, rows  *)
(* with the same code and name share one, and each entry shows the         *)
(* quantities of exactly its pair's rows.                                  *)
(***************************************************************************)
C5_GroupByCodeAndName ==
    sPc = "done" =>
        /\ Len(sOut) = Cardinality(PairsIn)
        /\ \A pair \in PairsIn : EntriesOf(pair) # {}
        /\ \A r1, r2 \in 1..Len(sOut) : sOut[r1].product = sOut[r2].product => r1 = r2

C5_Witness ==
    /\ sPc = "done"
    /\ Len(sA3) = 1 /\ Len(sA4) = 1
    /\ sA3[1].sap_code = "P1" /\ sA3[1].product_name = "N1"
    /\ sA4[1].sap_code = "P1" /\ sA4[1].product_name = ""
    /\ Len(sOut) = 2

(***************************************************************************)
(* SpecStore: clients call upsert_report and delete_report concurrently.   *)
(* upsert_report runs statement by statement inside its transaction        *)
(* (engine.begin()): its writes become visible at the commit, an exception *)
(* at any statement rolls them back.                                       *)
(***************************************************************************)
StoreInit == StoreIdle /\ NormIdle /\ SumIdle /\ PageIdle

Active(c) == tx[c].pc # "idle"

\* The client's transaction has executed its header statement.
HoldsLock(c) == tx[c].pc \notin {"idle", "header"}

\* (mutant of LockedByOther: the header statement takes no lock)
NotLocked(c, key) == FALSE

\* The reports row of key (or its entry in the unique index) is locked by
\* another client's transaction: the header statement waits.
LockedByOther(c, key) == \E o \in Clients \ {c} : HoldsLock(o) /\ tx[o].key = key

\* Another open transaction has written the employees row.
EmployeeLockedByOther(c, id) ==
    \E o \in Clients \ {c} : Active(o) /\ \E e \in tx[o].ws.employees : e.id = id

\* Where the transaction stands after the statement at pc (loops over
\* empty lists are passed).
AfterInserts(t, pc) ==
    CASE pc = "ins_tasks" /\ t.payload.tasks # <<>>     -> "ins_tasks"
      [] pc \in {"ins_tasks", "ins_emps"} /\ t.payload.line_emps # <<>> -> "ins_emps"
      [] pc \in {"ins_tasks", "ins_emps", "ins_sups"} /\ t.payload.supports # <<>> -> "ins_sups"
      [] OTHER -> "commit"

Event(op, c, key) == [op |-> op, c |-> c, key |-> key]

\* upsert_report(site_id, d, tasks, line_emps, supports) is called and
\* begins its transaction (lines 145-148).
TxCall(c, key, payload) ==
    /\ ~Active(c)
    /\ calls < MaxSaves
    /\ LET others == { o \in Clients \ {c} : Active(o) /\ tx[o].key = key }
       IN  tx' = [ o \in Clients |->
                    IF o = c
                    THEN [ pc |-> "header", key |-> key, payload |-> payload, i |-> 1,
                           ws |-> NoWrites, ov |-> others # {} ]
                    ELSE IF o \in others THEN [tx[o] EXCEPT !.ov = TRUE] ELSE tx[o] ]
    /\ calls' = calls + 1
    /\ ev' = Event("call", c, key)
    /\ UNCHANGED <<db, seq, last, normVars, sumVars, pageVars>>

\* Statement 1, once no other transaction holds the row.
TxHeader(c) ==
    /\ tx[c].pc = "header"
    /\ ~LockedByOther(c, tx[c].key)
    /\ tx' = [tx EXCEPT ![c].pc = "del_tasks",
                        ![c].ws = HeaderStmt(db, NoWrites, tx[c].key, seq.reports + 1)]
    /\ seq' = [seq EXCEPT !.reports = @ + 1]
    /\ ev' = Event("header", c, tx[c].key)
    /\ UNCHANGED <<db, last, calls, normVars, sumVars, pageVars>>

TxDelete(c) ==
    /\ tx[c].pc \in {"del_tasks", "del_emps", "del_sups"}
    /\ LET table == CASE tx[c].pc = "del_tasks" -> "tasks"
                      [] tx[c].pc = "del_emps"  -> "emps"
                      [] OTHER                  -> "sups"
           next  == CASE tx[c].pc = "del_tasks" -> "del_emps"
                      [] tx[c].pc = "del_emps"  -> "del_sups"
                      [] OTHER -> AfterInserts(tx[c], "ins_tasks")
       IN  tx' = [tx EXCEPT ![c].ws = DeleteStmt(@, table), ![c].pc = next, ![c].i = 1]
    /\ ev' = Event("delete_children", c, tx[c].key)
    /\ UNCHANGED <<db, seq, last, calls, normVars, sumVars, pageVars>>

\* The position after row i of the list the loop at pc runs over.
Advance(t, pc, len) ==
    IF t.i < len THEN [t EXCEPT !.i = @ + 1]
    ELSE [t EXCEPT !.i = 1,
                   !.pc = AfterInserts(t, CASE pc = "ins_tasks" -> "ins_emps"
                                            [] pc = "ins_emps"  -> "ins_sups"
                                            [] OTHER            -> "commit")]

TxInsertTask(c) ==
    /\ tx[c].pc = "ins_tasks"
    /\ LET t == tx[c].payload.tasks[tx[c].i]
       IN  /\ TaskInsertable(t)
           /\ tx' = [tx EXCEPT ![c] =
                       Advance([tx[c] EXCEPT !.ws = InsertTaskStmt(@, t, seq.tasks + 1)],
                               "ins_tasks", Len(tx[c].payload.tasks))]
    /\ seq' = [seq EXCEPT !.tasks = @ + 1]
    /\ ev' = Event("insert", c, tx[c].key)
    /\ UNCHANGED <<db, last, calls, normVars, sumVars, pageVars>>

\* The INSERT violates the foreign key: the exception leaves the with
\* block and the transaction is rolled back.
TxInsertTaskRaises(c) ==
    /\ tx[c].pc = "ins_tasks"
    /\ ~TaskInsertable(tx[c].payload.tasks[tx[c].i])
    /\ db' = Rollback(db, tx[c].ws)
    /\ tx' = [tx EXCEPT ![c] = IdleTx]
    /\ seq' = [seq EXCEPT !.tasks = @ + 1]
    /\ ev' = Event("rollback", c, tx[c].key)
    /\ UNCHANGED <<last, calls, normVars, sumVars, pageVars>>

TxInsertLineEmp(c) ==
    /\ tx[c].pc = "ins_emps"
    /\ LET le == tx[c].payload.line_emps[tx[c].i]
       IN  /\ ~EmployeeLockedByOther(c, le.employee_id)
           /\ tx' = [tx EXCEPT ![c] =
                       Advance([tx[c] EXCEPT !.ws = InsertLineEmpStmt(@, le, seq.emps + 1)],
                               "ins_emps", Len(tx[c].payload.line_emps))]
    /\ seq' = [seq EXCEPT !.emps = @ + 1]
    /\ ev' = Event("insert", c, tx[c].key)
    /\ UNCHANGED <<db, last, calls, normVars, sumVars, pageVars>>

TxInsertSupport(c) ==
    /\ tx[c].pc = "ins_sups"
    /\ LET s == tx[c].payload.supports[tx[c].i]
       IN  /\ ~EmployeeLockedByOther(c, s.employee_id)
           /\ tx' = [tx EXCEPT ![c] =
                       Advance([tx[c] EXCEPT !.ws = InsertSupportStmt(@, s, seq.sups + 1)],
                               "ins_sups", Len(tx[c].payload.supports))]
    /\ seq' = [seq EXCEPT !.sups = @ + 1]
    /\ ev' = Event("insert", c, tx[c].key)
    /\ UNCHANGED <<db, last, calls, normVars, sumVars, pageVars>>

\* History: the save of payload was committed; n = 2 when the committed
\* operation before it was a save of the same payload, over when it
\* replaced a report that had rows.
\* by, ov: the client and whether its call overlapped another one for the
\* pair; raced: it did, and so did the committed save before it, made by
\* the other client.
Saved(old, t, c) ==
    [ st |-> "saved", payload |-> t.payload,
      n |-> IF old.st = "saved" /\ old.payload = t.payload THEN 2 ELSE 1,
      over |-> old.st = "saved" /\ old.payload # NoPayload,
      by |-> c, ov |-> t.ov,
      raced |-> t.ov /\ old.st = "saved" /\ old.ov /\ old.by # c ]

Deleted(old) ==
    [ st |-> "deleted", payload |-> old.payload, n |-> 0, over |-> FALSE,
      by |-> "", ov |-> FALSE, raced |-> FALSE ]

\* The with block ends: COMMIT.
TxCommit(c) ==
    /\ tx[c].pc = "commit"
    /\ db' = Visible(db, tx[c].ws)
    /\ last' = [last EXCEPT ![tx[c].key] = Saved(@, tx[c], c)]
    /\ tx' = [tx EXCEPT ![c] = IdleTx]
    /\ ev' = Event("commit", c, tx[c].key)
    /\ UNCHANGED <<seq, calls, normVars, sumVars, pageVars>>

\* A storage failure at the next statement (or at the commit): ROLLBACK.
TxFail(c) ==
    /\ Active(c)
    /\ db' = Rollback(db, tx[c].ws)
    /\ tx' = [tx EXCEPT ![c] = IdleTx]
    /\ ev' = Event("rollback", c, tx[c].key)
    /\ UNCHANGED <<seq, last, calls, normVars, sumVars, pageVars>>

\* delete_report: one statement and its commit.  It waits for a
\* transaction that holds the lock of the report's row.
DeleteReport(c, key) ==
    /\ ~Active(c)
    /\ ~(HasReport(db, key) /\ LockedByOther(c, key))
    /\ db' = delete_report(db, key)
    /\ last' = [last EXCEPT ![key] =
                  IF HasReport(db, key) THEN Deleted(@) ELSE @]
    /\ ev' = Event("delete_report", c, key)
    /\ UNCHANGED <<seq, tx, calls, normVars, sumVars, pageVars>>

StoreNext ==
    \/ \E c \in Clients, key \in StoreKeys, payload \in Payloads : TxCall(c, key, payload)
    \/ \E c \in Clients : TxHeader(c)
    \/ \E c \in Clients : TxDelete(c)
    \/ \E c \in Clients : TxInsertTask(c)
    \/ \E c \in Clients : TxInsertTaskRaises(c)
    \/ \E c \in Clients : TxInsertLineEmp(c)
    \/ \E c \in Clients : TxInsertSupport(c)
    \/ \E c \in Clients : TxCommit(c)
    \/ \E c \in Clients : TxFail(c)
    \/ \E c \in Clients, key \in StoreKeys : DeleteReport(c, key)

SpecStore == StoreInit /\ [][StoreNext]_vars

\* The rows a table holds for the report of key, in the order of their
\* ids, without the columns id and report_id.
ChildRows(rows, rid) ==
    OrderedBy({ [rank |-> 0, row |-> r] : r \in { x \in rows : x.report_id = rid } })

StoredTasks(d, key) ==
    LET rows == ChildRows(d.tasks, ReportId(d, key))
    IN  [ i \in 1..Len(rows) |->
            [ line |-> rows[i].line, sap_id |-> rows[i].sap_id,
              qty_made |-> rows[i].qty_made, count_by_norm |-> rows[i].count_by_norm,
              discount_percent |-> rows[i].discount_percent ] ]

StoredLineEmps(d, key) ==
    LET rows == ChildRows(d.emps, ReportId(d, key))
    IN  [ i \in 1..Len(rows) |->
            [ employee_id |-> rows[i].employee_id, fio |-> rows[i].fio,
              work_time |-> rows[i].work_time, line |-> rows[i].line ] ]

StoredSupports(d, key) ==
    LET rows == ChildRows(d.sups, ReportId(d, key))
    IN  [ i \in 1..Len(rows) |->
            [ role |-> rows[i].role, employee_id |-> rows[i].employee_id,
              fio |-> rows[i].fio, work_time |-> rows[i].work_time ] ]

\* A step of the operation op.
Step(op) == ev'.op = op

(***************************************************************************)
(* C7.  upsert_report called twice in a row with the same (site, date,     *)
(* tasks, line_emps, supports): after the second call get_report returns   *)
(* the same report id and the same task, line-employee and support rows in *)
(* the same order as after the first, except for the ids of those rows,    *)
(* which the second call draws anew.                                       *)
(***************************************************************************)
WithoutIds(rows) ==
    [ i \in 1..Len(rows) |->
        [ f \in (DOMAIN rows[i]) \ {"id"} |-> rows[i][f] ] ]

SameButRowIds(r1, r2) ==
    /\ r1.found = r2.found
    /\ r1.id = r2.id
    /\ WithoutIds(r1.tasks) = WithoutIds(r2.tasks)
    /\ WithoutIds(r1.line_emps) = WithoutIds(r2.line_emps)
    /\ WithoutIds(r1.supports) = WithoutIds(r2.supports)

\* The step commits a save of what the last committed save of the key saved.
SecondIdenticalSave ==
    /\ Step("commit")
    /\ last[ev'.key].st = "saved"
    /\ last[ev'.key].payload = tx[ev'.c].payload

C7_SaveTwiceSameButRowIds ==
    [][ SecondIdenticalSave
          => SameButRowIds(get_report(db, ev'.key), get_report(db', ev'.key)) ]_vars

C7_Original ==
    [][ SecondIdenticalSave => get_report(db', ev'.key) = get_report(db, ev'.key) ]_vars

C7_Witness ==
    \E k \in StoreKeys :
       /\ ev = Event("commit", ev.c, k)
       /\ last[k].n = 2
       /\ last[k].payload.tasks # <<>>
       /\ last[k].payload.line_emps # <<>>
       /\ get_report(db, k).found

(***************************************************************************)
(* C8.  After a committed upsert_report(site, date, T, E, S) the task,     *)
(* line-employee and support rows stored for the report are exactly T, E   *)
(* and S: no row of an earlier save remains, an empty T leaves no task     *)
(* row.  (Until the next save or delete of that report.)                   *)
(***************************************************************************)
C8_SaveReplacesChildren ==
    \A k \in StoreKeys :
       last[k].st = "saved" =>
          /\ HasReport(db, k)
          /\ Cardinality(ReportRows(db, k)) = 1
          /\ StoredTasks(db, k) = last[k].payload.tasks
          /\ StoredLineEmps(db, k) = last[k].payload.line_emps
          /\ StoredSupports(db, k) = last[k].payload.supports

\* A save with an empty task list has replaced a report that had rows.
C8_Witness ==
    \E k \in StoreKeys :
       /\ last[k].st = "saved"
       /\ last[k].over
       /\ last[k].n = 1
       /\ last[k].payload.tasks = <<>>
       /\ StoredTasks(db, k) = <<>>
       /\ seq.tasks > 0

(***************************************************************************)
(* C9.  upsert_report is atomic.  No statement of an open transaction and  *)
(* no failure changes what the store holds and get_report returns: a call  *)
(* that fails at the header, at a DELETE or at an INSERT leaves the store  *)
(* as it was.  Only the commit changes it, and then to the report with all *)
(* the new children.                                                       *)
(***************************************************************************)
AllInserted(d, key, payload) ==
    /\ get_report(d, key).found
    /\ Len(get_report(d, key).tasks) = Len(payload.tasks)
    /\ Len(get_report(d, key).line_emps) = Len(payload.line_emps)
    /\ Len(get_report(d, key).supports) = Len(payload.supports)

NoRowOf(d, rid) ==
    /\ \A r \in d.reports : r.id # rid
    /\ \A r \in d.tasks \cup d.emps \cup d.sups : r.report_id # rid

C10_DeleteRemovesReport ==
    [][ Step("delete_report") =>
          /\ get_report(db', ev'.key) = NoReport
          /\ HasReport(db, ev'.key) => NoRowOf(db', ReportId(db, ev'.key))
          /\ \A k \in StoreKeys \ {ev'.key} : get_report(db', k) = get_report(db, k) ]_vars

\* A report with rows was deleted while another one is stored.
C10_Witness ==
    /\ ev.op = "delete_report"
    /\ last[ev.key].st = "deleted"
    /\ last[ev.key].payload.tasks # <<>>
    /\ ~get_report(db, ev.key).found
    /\ \E k \in StoreKeys \ {ev.key} : /\ last[k].st = "saved"
                                       /\ Len(get_report(db, k).tasks) > 0

(***************************************************************************)
(* Spec: one editing session of the report page (pages/reports.py) on the  *)
(* store.  Every event runs the script from its top: the report of the     *)
(* selected (site, date) is read and, if there is one and the working set  *)
(* is not marked prefilled, loaded into the working set (lines 56-104);    *)
(* then the handler of the event runs; st.rerun() runs the script again.   *)
(***************************************************************************)
MaxWork == 2        \* the working set holds at most MaxWork rows

MaxPageSaves == 1   \* the save button is pressed at most MaxPageSaves times

NoId == 0           \* "id": None

\* id_to_fio of load_cached_emps (lines 116-123).
EmployeeIds == { e.id : e \in EmptyDb.employees }
id_to_fio(id) == (CHOOSE e \in EmptyDb.employees : e.id = id).fio

Key(site, d) == <<SiteId(site), d>>

Session ==
    [ tasks_A3 |-> tasks_A3, tasks_A4 |-> tasks_A4, line_emps |-> line_emps,
      supports |-> supports, prefilled |-> prefilled,
      confirm_delete |-> confirm_delete, asked_for |-> asked_for ]

SetSession(ss) ==
    /\ tasks_A3' = ss.tasks_A3
    /\ tasks_A4' = ss.tasks_A4
    /\ line_emps' = ss.line_emps
    /\ supports' = ss.supports
    /\ prefilled' = ss.prefilled
    /\ confirm_delete' = ss.confirm_delete
    /\ asked_for' = ss.asked_for

WorkRows(ss) ==
    Len(ss.tasks_A3) + Len(ss.tasks_A4) + Len(ss.line_emps) + Len(ss.supports)

\* Lines 75-99: a task row of the stored report as a row of the working set.
PrefillTask(t) ==
    [ id |-> t.id, sap_code |-> t.sap_code, product_name |-> t.product_name,
      norm_per_employee |-> t.norm_per_employee,
      discount_percent |-> t.discount_percent,
      norm_with_discount |-> t.norm_with_discount,
      qty_made |-> t.qty_made, count_by_norm |-> t.count_by_norm, line |-> t.line ]

RECURSIVE PrefillTasks(_, _)
PrefillTasks(rows, line) ==
    IF rows = <<>> THEN <<>>
    ELSE (IF Head(rows).line = line THEN << PrefillTask(Head(rows)) >> ELSE <<>>)
         \o PrefillTasks(Tail(rows), line)

\* Lines 73-104: if existing and not st.session_state.get('prefilled')
Prefill(ss, existing) ==
    IF existing.found /\ ~ss.prefilled
    THEN [ ss EXCEPT !.tasks_A3 = PrefillTasks(existing.tasks, "A3"),
                     !.tasks_A4 = PrefillTasks(existing.tasks, "A4"),
                     !.line_emps = existing.line_emps,
                     !.supports = existing.supports,
                     !.prefilled = TRUE ]
    ELSE ss

\* add_task (lines 131-181); the result is [ok, ss].
add_task(ss, line, sap_code, discount_percent, qty_made, count_by_norm) ==
    IF sap_code = "" \/ ~HasItem(sap_code) THEN [ok |-> FALSE, ss |-> ss]
    ELSE
      LET item == ItemOf(sap_code)
          raw_norm == NormOf(item, line)
          norm_per_emp == IF raw_norm.some THEN raw_norm.q ELSE QInt(0)
          new_task ==
            [ id |-> NoId, sap_code |-> sap_code, product_name |-> item.product_name,
              norm_per_employee |-> SomeNorm(norm_per_emp),
              discount_percent |-> discount_percent,
              norm_with_discount |->
                 SomeNorm(QInt(norm_with_discount(norm_per_emp, discount_percent))),
              qty_made |-> qty_made, count_by_norm |-> count_by_norm, line |-> line ]
      IN  IF ~QLess(QInt(0), norm_per_emp) THEN [ok |-> FALSE, ss |-> ss]
          ELSE IF line = "A3"
               THEN [ok |-> TRUE, ss |-> [ss EXCEPT !.tasks_A3 = Append(@, new_task)]]
               ELSE [ok |-> TRUE, ss |-> [ss EXCEPT !.tasks_A4 = Append(@, new_task)]]

\* list.pop(index), index counted from 1.
Pop(list, index) == SubSeq(list, 1, index - 1) \o SubSeq(list, index + 1, Len(list))

\* remove_task (lines 183-192)
remove_task(ss, line, index) ==
    IF line = "A3"
    THEN IF index \in 1..Len(ss.tasks_A3)
         THEN [ss EXCEPT !.tasks_A3 = Pop(@, index)] ELSE ss
    ELSE IF index \in 1..Len(ss.tasks_A4)
         THEN [ss EXCEPT !.tasks_A4 = Pop(@, index)] ELSE ss

\* (mutant of add_employee: no check of the pair (employee_id, line))
add_employee_unchecked(ss, employee_id, work_time, line) ==
    IF \/ employee_id = 0
       \/ employee_id \notin EmployeeIds
       \/ ~QLess(QInt(0), work_time)
    THEN [ok |-> FALSE, ss |-> ss]
    ELSE [ok |-> TRUE,
          ss |-> [ss EXCEPT !.line_emps =
                    Append(@, [ id |-> NoId, employee_id |-> employee_id,
                                fio |-> id_to_fio(employee_id),
                                work_time |-> work_time, line |-> line ])]]

\* add_employee (lines 194-232)
add_employee(ss, employee_id, work_time, line) ==
    IF \/ employee_id = 0
       \/ employee_id \notin EmployeeIds
       \/ ~QLess(QInt(0), work_time)
       \/ \E i \in 1..Len(ss.line_emps) :
             ss.line_emps[i].employee_id = employee_id /\ ss.line_emps[i].line = line
    THEN [ok |-> FALSE, ss |-> ss]
    ELSE [ok |-> TRUE,
          ss |-> [ss EXCEPT !.line_emps =
                    Append(@, [ id |-> NoId, employee_id |-> employee_id,
                                fio |-> id_to_fio(employee_id),
                                work_time |-> work_time, line |-> line ])]]

\* remove_employee (lines 234-238)
remove_employee(ss, index) ==
    IF index \in 1..Len(ss.line_emps) THEN [ss EXCEPT !.line_emps = Pop(@, index)] ELSE ss

\* add_support_role (lines 240-278)
add_support_role(ss, role, employee_id, work_time) ==
    IF \/ employee_id = 0
       \/ employee_id \notin EmployeeIds
       \/ ~QLess(QInt(0), work_time)
       \/ \E i \in 1..Len(ss.supports) : ss.supports[i].role = role
    THEN [ok |-> FALSE, ss |-> ss]
    ELSE [ok |-> TRUE,
          ss |-> [ss EXCEPT !.supports =
                    Append(@, [ id |-> NoId, role |-> role, employee_id |-> employee_id,
                                fio |-> id_to_fio(employee_id),
                                work_time |-> work_time ])]]

\* remove_support_role (lines 280-284)
remove_support_role(ss, index) ==
    IF index \in 1..Len(ss.supports) THEN [ss EXCEPT !.supports = Pop(@, index)] ELSE ss

\* Lines 548-571: the TaskModel of every row whose code the catalog knows.
RECURSIVE TaskModels(_, _)
TaskModels(rows, line) ==
    IF rows = <<>> THEN <<>>
    ELSE LET t == Head(rows)
         IN  (IF HasItem(t.sap_code)
              THEN << [ line |-> line,
                        sap_id |-> ItemOf(t.sap_code).id,
                        qty_made |-> to_int_safe(PyInt(t.qty_made), 0),
                        count_by_norm |-> PyTruthy(PyBool(t.count_by_norm)),
                        discount_percent |-> to_int_safe(PyInt(t.discount_percent), 0) ] >>
              ELSE <<>>)
             \o TaskModels(Tail(rows), line)

\* Lines 547-571: tasks = [] ; if site_name == 'Катюша': ...
SaveTasks(ss, site) ==
    IF site = TaskSite
    THEN TaskModels(ss.tasks_A3, "A3") \o TaskModels(ss.tasks_A4, "A4")
    ELSE <<>>

\* value or default, of a string field: None (written NoCode) and "" are
\* falsy.  On the numbers of the working set (employee_id or 0, work_time
\* or 0.0) the expression returns the number.
PyOr(value, default) == IF value \in {NoCode, ""} THEN default ELSE value

\* Lines 574-581: LineEmployeeModel of the cleaned row
SaveLineEmps(ss) ==
    [ i \in 1..Len(ss.line_emps) |->
        [ employee_id |-> ss.line_emps[i].employee_id,
          fio |-> PyOr(ss.line_emps[i].fio, ""),
          work_time |-> ss.line_emps[i].work_time,
          line |-> PyOr(ss.line_emps[i].line, "A3") ] ]

\* Lines 583-590: SupportRoleModel of the cleaned row
SaveSupports(ss) ==
    [ i \in 1..Len(ss.supports) |->
        [ role |-> PyOr(ss.supports[i].role, "senior"),
          employee_id |-> ss.supports[i].employee_id,
          fio |-> PyOr(ss.supports[i].fio, ""),
          work_time |-> ss.supports[i].work_time ] ]

\* The validators of models/data_models.py: TRUE where they return the
\* value, FALSE where they raise.
\* (mutant of v_line: the validator is missing)
v_line_absent(v) == TRUE

v_line(v) == v \in {"A3", "A4"}

v_discount(v) == v \in 0..MaxDiscount

\* (mutant of v_role: the validator is missing)
v_role_absent(v) == TRUE

v_role(v) == v \in {"senior", "repair"}

\* Every model of the save handler is constructed.
Validates(tasks, emps, sups) ==
    /\ \A i \in 1..Len(tasks) : /\ v_line(tasks[i].line)
                                /\ v_discount(tasks[i].discount_percent)
    /\ \A i \in 1..Len(emps) : v_line(emps[i].line)
    /\ \A i \in 1..Len(sups) : v_role(sups[i].role)

\* What the forms submit.
TaskInputs ==
    { <<"A3", "P1", 30, 7, FALSE>>, <<"A4", "P3", 0, 50, TRUE>>,
      <<"A3", "", 0, 0, TRUE>>, <<"A4", "P2", 0, 1, TRUE>> }

EmployeeInputs ==
    { <<1, Q(15, 2), "A3">>, <<0, QInt(8), "A3">>, <<1, QInt(0), "A4">>,
      <<1, QInt(8), "A4">> }

SupportInputs ==
    { <<"senior", 2, QInt(8)>>, <<"senior", 0, QInt(8)>> }

\* get_report(site_id, rep_date) of line 56
Existing == get_report(db, Key(site_name, rep_date))

\* The script run of an event up to its handler.
Run == Prefill(Session, Existing)

\* The script run after st.rerun().
Rerun(ss, d) == Prefill(ss, get_report(d, Key(site_name, rep_date)))

StoreUntouched == UNCHANGED <<db, seq, tx, last, ev, calls>>

SelectSite(s) ==
    /\ s # site_name
    /\ site_name' = s
    /\ SetSession(Prefill(Session, get_report(db, Key(s, rep_date))))
    /\ pev' = PageEvent("select_site", TRUE)
    /\ StoreUntouched
    /\ UNCHANGED <<rep_date, normVars, sumVars>>

SelectDate(d) ==
    /\ d # rep_date
    /\ rep_date' = d
    /\ SetSession(Prefill(Session, get_report(db, Key(site_name, d))))
    /\ pev' = PageEvent("select_date", TRUE)
    /\ StoreUntouched
    /\ UNCHANGED <<site_name, normVars, sumVars>>

\* Lines 38-45: the button, then st.rerun().
ResetState ==
    /\ SetSession(Rerun([ Session EXCEPT !.tasks_A3 = <<>>, !.tasks_A4 = <<>>,
                                          !.line_emps = <<>>, !.supports = <<>>,
                                          !.prefilled = FALSE ], db))
    /\ pev' = PageEvent("reset", TRUE)
    /\ StoreUntouched
    /\ UNCHANGED <<site_name, rep_date, normVars, sumVars>>

AddTask(in) ==
    /\ site_name = TaskSite
    /\ WorkRows(Run) < MaxWork
    /\ LET r == add_task(Run, in[1], in[2], in[3], in[4], in[5])
       IN  SetSession(r.ss) /\ pev' = PageEvent("add_task", r.ok)
    /\ StoreUntouched
    /\ UNCHANGED <<site_name, rep_date, normVars, sumVars>>

\* The button of row index of the table of line; the row is there again
\* in this run, or the click is lost.
RemoveTask(line, index) ==
    /\ site_name = TaskSite
    /\ index \in 1..Len(IF line = "A3" THEN tasks_A3 ELSE tasks_A4)
    /\ IF index \in 1..Len(IF line = "A3" THEN Run.tasks_A3 ELSE Run.tasks_A4)
       THEN SetSession(Rerun(remove_task(Run, line, index), db))
       ELSE SetSession(Run)
    /\ pev' = PageEvent("remove_task", TRUE)
    /\ StoreUntouched
    /\ UNCHANGED <<site_name, rep_date, normVars, sumVars>>

AddEmployee(in) ==
    /\ site_name = TaskSite
    /\ WorkRows(Run) < MaxWork
    /\ LET r == add_employee(Run, in[1], in[2], in[3])
       IN  SetSession(r.ss) /\ pev' = PageEvent("add_employee", r.ok)
    /\ StoreUntouched
    /\ UNCHANGED <<site_name, rep_date, normVars, sumVars>>

RemoveEmployee(index) ==
    /\ index \in 1..Len(line_emps)
    /\ IF index \in 1..Len(Run.line_emps)
       THEN SetSession(Rerun(remove_employee(Run, index), db))
       ELSE SetSession(Run)
    /\ pev' = PageEvent("remove_employee", TRUE)
    /\ StoreUntouched
    /\ UNCHANGED <<site_name, rep_date, normVars, sumVars>>

AddSupportRole(in) ==
    /\ site_name = TaskSite
    /\ WorkRows(Run) < MaxWork
    /\ LET r == add_support_role(Run, in[1], in[2], in[3])
       IN  SetSession(r.ss) /\ pev' = PageEvent("add_support_role", r.ok)
    /\ StoreUntouched
    /\ UNCHANGED <<site_name, rep_date, normVars, sumVars>>

RemoveSupportRole(index) ==
    /\ index \in 1..Len(supports)
    /\ IF index \in 1..Len(Run.supports)
       THEN SetSession(Rerun(remove_support_role(Run, index), db))
       ELSE SetSession(Run)
    /\ pev' = PageEvent("remove_support_role", TRUE)
    /\ StoreUntouched
    /\ UNCHANGED <<site_name, rep_date, normVars, sumVars>>

\* Lines 545-615: the save button; no exception is raised.
Save ==
    /\ calls < MaxPageSaves
    /\ LET ss  == Run
           t   == SaveTasks(ss, site_name)
           e   == SaveLineEmps(ss)
           u   == SaveSupports(ss)
           res == upsert_report(db, seq, Key(site_name, rep_date), t, e, u)
       IN  /\ Validates(t, e, u)
           /\ res.ok
           /\ db' = res.db
           /\ seq' = res.seq
           /\ SetSession([ss EXCEPT !.prefilled = FALSE])
    /\ calls' = calls + 1
    /\ pev' = PageEvent("save", TRUE)
    /\ UNCHANGED <<site_name, rep_date, tx, last, ev, normVars, sumVars>>

\* Lines 614-615: the exception of a validator or of upsert_report is
\* caught and reported.  A validator raises before upsert_report is called
\* (line 611); calls counts the calls.
SaveFails ==
    /\ LET ss  == Run
           t   == SaveTasks(ss, site_name)
           e   == SaveLineEmps(ss)
           u   == SaveSupports(ss)
           res == upsert_report(db, seq, Key(site_name, rep_date), t, e, u)
       IN  IF Validates(t, e, u)
           THEN /\ calls < MaxPageSaves
                /\ db' = Rollback(db, NoWrites)
                /\ seq' \in {seq, res.seq}
                /\ calls' = calls + 1
                /\ SetSession(ss)
           ELSE /\ db' = db
                /\ seq' = seq
                /\ calls' = calls
                /\ SetSession(ss)
    /\ pev' = PageEvent("save", FALSE)
    /\ UNCHANGED <<site_name, rep_date, tx, last, ev, normVars, sumVars>>

\* Lines 631-634: the delete button, shown if a report was found.
DeleteButton ==
    /\ Existing.found
    /\ SetSession([Run EXCEPT !.confirm_delete = TRUE,
                           !.asked_for = <<SiteId(site_name), rep_date>>])
    /\ pev' = PageEvent("delete_button", TRUE)
    /\ StoreUntouched
    /\ UNCHANGED <<site_name, rep_date, normVars, sumVars>>

\* Lines 640-647: the confirmation's yes button.
ConfirmYes ==
    /\ Existing.found
    /\ confirm_delete
    /\ db' = delete_report(db, Key(site_name, rep_date))
    /\ SetSession(Rerun([Run EXCEPT !.confirm_delete = FALSE, !.asked_for = <<0, 0>>], db'))
    /\ pev' = PageEvent("delete", TRUE)
    /\ UNCHANGED <<site_name, rep_date, seq, tx, last, ev, calls, normVars, sumVars>>

\* Lines 648-649: delete_report raises.
ConfirmYesFails ==
    /\ Existing.found
    /\ confirm_delete
    /\ SetSession(Run)
    /\ pev' = PageEvent("delete", FALSE)
    /\ StoreUntouched
    /\ UNCHANGED <<site_name, rep_date, normVars, sumVars>>

\* Lines 650-653: the confirmation's cancel button.
CancelNo ==
    /\ Existing.found
    /\ confirm_delete
    /\ SetSession(Rerun([Run EXCEPT !.confirm_delete = FALSE, !.asked_for = <<0, 0>>], db))
    /\ pev' = PageEvent("cancel", TRUE)
    /\ StoreUntouched
    /\ UNCHANGED <<site_name, rep_date, normVars, sumVars>>

Init == PageIdle /\ StoreIdle /\ NormIdle /\ SumIdle

Next ==
    \/ \E s \in Sites : SelectSite(s)
    \/ \E d \in Dates : SelectDate(d)
    \/ ResetState
    \/ \E in \in TaskInputs : AddTask(in)
    \/ \E line \in Lines, index \in 1..MaxWork + 1 : RemoveTask(line, index)
    \/ \E in \in EmployeeInputs : AddEmployee(in)
    \/ \E index \in 1..MaxWork + 1 : RemoveEmployee(index)
    \/ \E in \in SupportInputs : AddSupportRole(in)
    \/ \E index \in 1..MaxWork + 1 : RemoveSupportRole(index)
    \/ Save
    \/ SaveFails
    \/ DeleteButton
    \/ ConfirmYes
    \/ ConfirmYesFails
    \/ CancelNo

Spec == Init /\ [][Next]_vars

(***************************************************************************)
(* C6.  Round trip: after the page's save of the working set for (site,    *)
(* date), get_report(site, date) returns the set of task rows (line,       *)
(* product, quantity, count_by_norm, discount), the line-employee          *)
(* assignments and the support assignments of the working set.             *)
(***************************************************************************)
TaskFields(t) ==
    [ line |-> t.line, sap_code |-> t.sap_code, qty_made |-> t.qty_made,
      count_by_norm |-> t.count_by_norm, discount_percent |-> t.discount_percent ]

LineEmpFields(r) ==
    [ employee_id |-> r.employee_id, fio |-> r.fio, work_time |-> r.work_time,
      line |-> r.line ]

SupportFields(r) ==
    [ role |-> r.role, employee_id |-> r.employee_id, fio |-> r.fio,
      work_time |-> r.work_time ]

Range(f) == { f[i] : i \in DOMAIN f }

SameSets(a3, a4, emps, sups, loaded) ==
    /\ loaded.found
    /\ { TaskFields(t) : t \in Range(a3) \cup Range(a4) }
         = { TaskFields(t) : t \in Range(loaded.tasks) }
    /\ { LineEmpFields(r) : r \in Range(emps) }
         = { LineEmpFields(r) : r \in Range(loaded.line_emps) }
    /\ { SupportFields(r) : r \in Range(sups) }
         = { SupportFields(r) : r \in Range(loaded.supports) }

C6_RoundTrip ==
    [][ pev' = PageEvent("save", TRUE)
          => SameSets(tasks_A3', tasks_A4', line_emps', supports',
                      get_report(db', Key(site_name', rep_date'))) ]_vars

(***************************************************************************)
(* C11.  After any sequence of saves and deletes the store holds at most   *)
(* one report per (site, date).  A save of a pair that has a report keeps  *)
(* that report's id, a save of a pair that has none creates the report,    *)
(* and no save changes what get_report returns for another (site, date).   *)
(***************************************************************************)
OneReportPerKey(d) ==
    \A r1, r2 \in d.reports :
       (r1.site_id = r2.site_id /\ r1.report_date = r2.report_date) => r1 = r2

C11_OneReportPerKey ==
    [][ /\ OneReportPerKey(db')
        /\ Step("commit") =>
             /\ HasReport(db', ev'.key)
             /\ HasReport(db, ev'.key) => ReportId(db', ev'.key) = ReportId(db, ev'.key)
             /\ \A k \in StoreKeys \ {ev'.key} : get_report(db', k) = get_report(db, k) ]_vars

\* The second save of a pair was committed; it drew a sequence value and
\* kept the report's id.
C11_Witness ==
    /\ ev.op = "commit"
    /\ last[ev.key].over
    /\ seq.reports = 2
    /\ ReportId(db, ev.key) = 1
    /\ Cardinality(db.reports) = 1

(***************************************************************************)
(* C12.  Two saves of one (site, date) whose calls were open at the same   *)
(* time: the second to commit wins.  After its commit the pair has one     *)
(* report, and the report's tasks, line employees and support roles are    *)
(* exactly the ones that save was given, in its order: no row of the first *)
(* save remains.                                                           *)
(***************************************************************************)
C12_LastWriteWins ==
    [][ Step("commit") /\ last'[ev'.key].raced =>
          /\ Cardinality(ReportRows(db', ev'.key)) = 1
          /\ StoredTasks(db', ev'.key) = tx[ev'.c].payload.tasks
          /\ StoredLineEmps(db', ev'.key) = tx[ev'.c].payload.line_emps
          /\ StoredSupports(db', ev'.key) = tx[ev'.c].payload.supports ]_vars

\* The second of two overlapping saves has committed over the children the
\* first one had committed, with other children.
C12_Witness ==
    /\ ev.op = "commit"
    /\ last[ev.key].raced
    /\ last[ev.key].over
    /\ last[ev.key].n = 1
    /\ StoredTasks(db, ev.key) # <<>>

(***************************************************************************)
(* C13.  Every A3 row of the working set, whether add_task made it or the  *)
(* prefill took it from get_report, carries the catalog's A3 norm as its   *)
(* norm_per_employee and the norm_with_discount normalize_task_row         *)
(* computes for its product and discount.                                  *)
(***************************************************************************)
NormalizedA3(t) ==
    normalize_task_row("A3", [ sap_code |-> t.sap_code,
                               discount_percent |-> PyInt(t.discount_percent),
                               qty_made |-> PyInt(t.qty_made),
                               count_by_norm |-> PyBool(t.count_by_norm) ])

C13_A3NormIsCatalogNorm ==
    \A i \in DOMAIN tasks_A3 :
       /\ tasks_A3[i].norm_per_employee
            = SomeNorm(NormalizedA3(tasks_A3[i]).norm_per_employee)
       /\ tasks_A3[i].norm_with_discount
            = SomeNorm(QInt(NormalizedA3(tasks_A3[i]).norm_with_discount))

(***************************************************************************)
(* SpecSave: the save button on every working set of a bounded domain.     *)
(* The working set is st.session_state, which the page shares with app.py  *)
(* (its data editors leave the line of a new row None) and fills from the  *)
(* store; the store is empty or holds a report of the default day.         *)
(***************************************************************************)
MaxSaveRows == 1    \* each list of the working set holds at most MaxSaveRows rows

SaveLines     == { "A3", "A4", "B1", "", NoCode }
SaveRoles     == { "senior", "repair", "boss", "", NoCode }
SaveDiscounts == { 0, 30, 0 - 1, MaxDiscount + 1 }

SaveTaskRows ==
    { [ id |-> NoId, sap_code |-> code, product_name |-> "N1",
        norm_per_employee |-> SomeNorm(QInt(100)), discount_percent |-> disc,
        norm_with_discount |-> SomeNorm(QInt(norm_with_discount(QInt(100), disc))),
        qty_made |-> 7, count_by_norm |-> FALSE, line |-> "A3" ] :
      code \in {"P1", "PX"}, disc \in SaveDiscounts }

SaveEmpRows ==
    { [ id |-> NoId, employee_id |-> 1, fio |-> "Ann", work_time |-> QInt(8),
        line |-> line ] : line \in SaveLines }

SaveSupportRows ==
    { [ id |-> NoId, role |-> role, employee_id |-> 2, fio |-> "Bob",
        work_time |-> QInt(8) ] : role \in SaveRoles }

SeqsUpTo(S, n) == UNION { [1..k -> S] : k \in 0..n }

\* The store after one save of a report for the default site and day.
StoredReport ==
    upsert_report(EmptyDb, ZeroSeq, Key(TaskSite, Today), <<Task2>>, <<Emp1>>, <<Sup2>>)

SaveInit ==
    /\ site_name \in Sites
    /\ rep_date = Today
    /\ tasks_A3 \in SeqsUpTo(SaveTaskRows, MaxSaveRows)
    /\ tasks_A4 = <<>>
    /\ line_emps \in SeqsUpTo(SaveEmpRows, MaxSaveRows)
    /\ supports \in SeqsUpTo(SaveSupportRows, MaxSaveRows)
    /\ prefilled \in BOOLEAN
    /\ confirm_delete = FALSE
    /\ asked_for = <<0, 0>>
    /\ pev = PageEvent("load", TRUE)
    /\ \E stored \in BOOLEAN :
          /\ db = IF stored THEN StoredReport.db ELSE EmptyDb
          /\ seq = IF stored THEN StoredReport.seq ELSE ZeroSeq
    /\ tx = [c \in Clients |-> IdleTx]
    /\ last = [k \in StoreKeys |-> Never]
    /\ ev = [op |-> "init", c |-> "c1", key |-> <<0, 0>>]
    /\ calls = 0
    /\ NormIdle /\ SumIdle

SaveNext ==
    \/ Save
    \/ SaveFails

SpecSave == SaveInit /\ [][SaveNext]_vars

\* A record of the working set ss which the save handler makes a model of
\* has a line, a role or a discount that is present and not an allowed one.
HasBadRecord(ss, site) ==
    \/ \E i \in 1..Len(ss.line_emps) : ss.line_emps[i].line \notin Lines \cup {"", NoCode}
    \/ \E i \in 1..Len(ss.supports) :
          ss.supports[i].role \notin {"senior", "repair", "", NoCode}
    \/ /\ site = TaskSite
       /\ \E t \in Range(ss.tasks_A3) \cup Range(ss.tasks_A4) :
             HasItem(t.sap_code) /\ t.discount_percent \notin 0..MaxDiscount

\* A record of the working set has a line or a role that is missing or empty.
HasBlankRecord(ss) ==
    \/ \E i \in 1..Len(ss.line_emps) : ss.line_emps[i].line \in {"", NoCode}
    \/ \E i \in 1..Len(ss.supports) : ss.supports[i].role \in {"", NoCode}

\* The save handler has run without an exception.
SaveDone == pev' = PageEvent("save", TRUE)

\* The rows upsert_report was given are the rows it has committed.
PassedAreValid(d, key) ==
    /\ \A i \in 1..Len(StoredTasks(d, key)) :
          /\ StoredTasks(d, key)[i].line \in Lines
          /\ StoredTasks(d, key)[i].discount_percent \in 0..MaxDiscount
    /\ \A i \in 1..Len(StoredLineEmps(d, key)) : StoredLineEmps(d, key)[i].line \in Lines
    /\ \A i \in 1..Len(StoredSupports(d, key)) :
          StoredSupports(d, key)[i].role \in {"senior", "repair"}

(***************************************************************************)
(* C14 (as stated).  The save succeeds only if no record of the working    *)
(* set has a line outside A3, A4, a role outside senior, repair or a       *)
(* discount outside 0..100: the handler substitutes no value.              *)
(***************************************************************************)
C14_Original ==
    [][ SaveDone => ~HasBadRecord(Run, site_name) /\ ~HasBlankRecord(Run) ]_vars

(***************************************************************************)
(* C14 (amended).  The rows the save handler passes to upsert_report have  *)
(* a line in A3, A4, a role in senior, repair and a discount in 0..100.    *)
(* The save fails if a record has a line, a role or a discount that is     *)
(* present and not an allowed one.  A line employee whose line is missing  *)
(* or empty is saved on line A3, a support whose role is missing or empty  *)
(* is saved as senior; other lines and roles are saved as they are.        *)
(***************************************************************************)
C14_RejectsOrDefaults ==
    [][ SaveDone =>
          /\ ~HasBadRecord(Run, site_name)
          /\ PassedAreValid(db', Key(site_name, rep_date))
          /\ Len(StoredLineEmps(db', Key(site_name, rep_date))) = Len(Run.line_emps)
          /\ \A i \in 1..Len(Run.line_emps) :
                StoredLineEmps(db', Key(site_name, rep_date))[i].line
                  = IF Run.line_emps[i].line \in {"", NoCode} THEN "A3"
                    ELSE Run.line_emps[i].line
          /\ Len(StoredSupports(db', Key(site_name, rep_date))) = Len(Run.supports)
          /\ \A i \in 1..Len(Run.supports) :
                StoredSupports(db', Key(site_name, rep_date))[i].role
                  = IF Run.supports[i].role \in {"", NoCode} THEN "senior"
                    ELSE Run.supports[i].role ]_vars

\* A working set whose line employee has no line has been saved: the stored
\* row is on line A3.
C14_Witness ==
    /\ pev = PageEvent("save", TRUE)
    /\ \E i \in 1..Len(line_emps) :
          /\ line_emps[i].line = NoCode
          /\ Len(StoredLineEmps(db, Key(site_name, rep_date))) = Len(line_emps)
          /\ StoredLineEmps(db, Key(site_name, rep_date))[i].line = "A3"

(***************************************************************************)
(* C15.  A save of a working set with a record that fails validation is    *)
(* reported as failed and leaves the store as it was: upsert_report is not *)
(* called, no table and no sequence changes.                               *)
(***************************************************************************)
C15_InvalidSaveAborts ==
    [][ pev'.op = "save" /\ HasBadRecord(Run, site_name) =>
          /\ pev'.ok = FALSE
          /\ db' = db
          /\ seq' = seq
          /\ calls' = calls ]_vars

\* The save of a working set with a bad record has failed; the store holds
\* the report it held.
C15_Witness ==
    /\ pev = PageEvent("save", FALSE)
    /\ HasBadRecord(Session, site_name)
    /\ db = StoredReport.db
    /\ calls = 0

(***************************************************************************)
(* C16 (as stated).  No step of a save changes an employee record.         *)
(***************************************************************************)
SaveStep ==
    \/ Step("call") \/ Step("header") \/ Step("delete_children") \/ Step("insert")
    \/ Step("rollback") \/ Step("commit")

C16_Original == [][ SaveStep => db'.employees = db.employees ]_vars

(***************************************************************************)
(* C16 (amended).  A committed save writes the employee directory: every   *)
(* employee id of a saved line-employee or support row has one record, and *)
(* its display name is the fio of the last saved row with that id; the     *)
(* records of the other employees stay as they are.  A save that is rolled *)
(* back, and a save before its commit, changes no employee record.         *)
(***************************************************************************)
EmployeeRefs(payload) ==
    [ i \in 1..Len(payload.line_emps) |->
        [id |-> payload.line_emps[i].employee_id, fio |-> payload.line_emps[i].fio] ]
    \o [ i \in 1..Len(payload.supports) |->
        [id |-> payload.supports[i].employee_id, fio |-> payload.supports[i].fio] ]

LastFio(refs, id) ==
    refs[CHOOSE i \in DOMAIN refs :
           refs[i].id = id /\ \A j \in DOMAIN refs : j > i => refs[j].id # id].fio

C16_SaveWritesEmployees ==
    [][ /\ SaveStep /\ ~Step("commit") => db'.employees = db.employees
        /\ Step("commit") =>
             LET refs == EmployeeRefs(tx[ev'.c].payload)
                 ids  == { refs[i].id : i \in DOMAIN refs }
             IN  /\ \A e \in db.employees : e.id \notin ids => e \in db'.employees
                 /\ \A id \in ids : [id |-> id, fio |-> LastFio(refs, id)] \in db'.employees
                 /\ { e.id : e \in db'.employees } = { e.id : e \in db.employees } \cup ids
                 /\ \A e1, e2 \in db'.employees : e1.id = e2.id => e1 = e2 ]_vars

\* A save with the line employee (1, "Anna") has committed: the directory
\* had employee 1 as "Ann" and has it as "Anna".
C16_Witness ==
    /\ ev.op = "commit"
    /\ last[ev.key].payload.line_emps = <<Emp1b>>
    /\ [id |-> 1, fio |-> "Anna"] \in db.employees
    /\ [id |-> 1, fio |-> "Ann"] \notin db.employees

(***************************************************************************)
(* C17.  normalize_task_row on a row whose code is None or not a code of   *)
(* the catalog returns product_name "", norm_per_employee 0 and            *)
(* norm_with_discount 0, whatever the discount; sap_code is the given      *)
(* code, "" when it was None.                                              *)
(***************************************************************************)
Unresolved == nRow.sap_code = NoCode \/ nRow.sap_code \notin CatalogCodes

C17_UnresolvedCode ==
    nPc = "done" /\ Unresolved =>
        /\ nOut.product_name = ""
        /\ nOut.norm_per_employee = QInt(0)
        /\ nOut.norm_with_discount = 0
        /\ nOut.sap_code = IF nRow.sap_code = NoCode THEN "" ELSE nRow.sap_code

\* A row without a code and with a discount of 30 has been normalized.
C17_Witness ==
    /\ nPc = "done"
    /\ nRow.sap_code = NoCode
    /\ nRow.discount_percent = PyInt(30)
    /\ nOut.sap_code = ""
    /\ nOut.norm_with_discount = 0

(***************************************************************************)
(* C18.  normalize_task_row on a row whose code is in the catalog takes    *)
(* the product's A3 norm on line A3 and its A4 norm on line A4.  If the    *)
(* product has that norm, norm_per_employee is the norm and product_name   *)
(* the catalog's name; if it has not, norm_per_employee and                *)
(* norm_with_discount are 0 and product_name is the name with the note     *)
(* that the product is not produced on the line.  No other row gets the    *)
(* note.                                                                   *)
(***************************************************************************)
CatalogEntry == CHOOSE x \in SapCatalog : x.sap_code = nRow.sap_code

LineNormOf(x) ==
    IF nLine = "A3" THEN x.norm_a3_per_employee ELSE x.norm_a4_per_employee

Annotated ==
    \E x \in SapCatalog, l \in Lines : nOut.product_name = NotProduced(x.product_name, l)

C18_NormOfLine ==
    nPc = "done" =>
        /\ ~Unresolved /\ LineNormOf(CatalogEntry).some =>
              /\ nOut.norm_per_employee = LineNormOf(CatalogEntry).q
              /\ nOut.product_name = CatalogEntry.product_name
        /\ ~Unresolved /\ ~LineNormOf(CatalogEntry).some =>
              /\ nOut.norm_per_employee = QInt(0)
              /\ nOut.norm_with_discount = 0
              /\ nOut.product_name = NotProduced(CatalogEntry.product_name, nLine)
        /\ Annotated => ~Unresolved /\ ~LineNormOf(CatalogEntry).some

\* P2 has no A4 norm: its row on line A4 has been normalized and annotated.
C18_Witness ==
    /\ nPc = "done"
    /\ nLine = "A4"
    /\ nRow.sap_code = "P2"
    /\ nOut.product_name = "N2 (not produced on A4)"
    /\ nOut.norm_per_employee = QInt(0)

(***************************************************************************)
(* C19 (as stated).  The returned quantity is a non-negative integer, 0    *)
(* for a None, NaN, blank or invalid raw quantity.                         *)
(***************************************************************************)
QtyDefaulted == nRow.qty_made.k # "int" => nOut.qty_made = 0

C19_Original ==
    nPc = "done" => nOut.qty_made \in Nat /\ QtyDefaulted

(***************************************************************************)
(* C19 (amended).  The returned quantity is an integer: 0 for a None, NaN, *)
(* blank or invalid raw quantity, and the raw quantity itself when that is *)
(* an integer, negative ones included.                                     *)
(***************************************************************************)
C19_QuantityCoerced ==
    nPc = "done" =>
        /\ nOut.qty_made \in Int
        /\ QtyDefaulted
        /\ nRow.qty_made.k = "int" => nOut.qty_made = nRow.qty_made.v

\* A raw quantity of -1 has been normalized to -1.
C19_Witness ==
    /\ nPc = "done"
    /\ nRow.qty_made = PyInt(0 - 1)
    /\ nOut.qty_made = 0 - 1

(***************************************************************************)
(* C20 (as stated).  The returned discount is an integer in 0..100, 0 for  *)
(* a missing or out-of-range raw discount, and norm_with_discount lies     *)
(* between 0 and the base norm.                                            *)
(***************************************************************************)
DiscountDefaulted == nRow.discount_percent.k # "int" => nOut.discount_percent = 0

C20_Original ==
    nPc = "done" =>
        /\ nOut.discount_percent \in 0..MaxDiscount
        /\ DiscountDefaulted
        /\ nOut.norm_with_discount >= 0
        /\ ~QLess(nOut.norm_per_employee, QInt(nOut.norm_with_discount))

(***************************************************************************)
(* C20 (amended).  The returned discount is an integer: 0 for a None, NaN, *)
(* blank or invalid raw discount, and the raw discount itself when that is *)
(* an integer, also outside 0..100.  For a returned discount in 0..100,    *)
(* norm_with_discount lies between 0 and the base norm rounded up to a     *)
(* whole number.                                                           *)
(***************************************************************************)
C20_DiscountCoerced ==
    nPc = "done" =>
        /\ nOut.discount_percent \in Int
        /\ DiscountDefaulted
        /\ nRow.discount_percent.k = "int" =>
              nOut.discount_percent = nRow.discount_percent.v
        /\ nOut.discount_percent \in 0..MaxDiscount =>
              /\ nOut.norm_with_discount >= 0
              /\ QLess(QInt(nOut.norm_with_discount - 1), nOut.norm_per_employee)

\* A raw discount of 102 on a norm of 100 has been normalized: the discount
\* stays 102 and norm_with_discount is -2.
C20_Witness ==
    /\ nPc = "done"
    /\ nLine = "A3"
    /\ nRow.sap_code = "P1"
    /\ nRow.discount_percent = PyInt(MaxDiscount + 2)
    /\ nOut.discount_percent = MaxDiscount + 2
    /\ nOut.norm_with_discount = 0 - 2

(***************************************************************************)
(* C21.  normalize_task_row on a raw row without a count_by_norm value     *)
(* returns count_by_norm = true, the default calculate_product_summary     *)
(* uses for a row without the key.                                         *)
(***************************************************************************)
C21_FlagDefaultsToTrue ==
    nPc = "done" /\ nRow.count_by_norm = PyNone => nOut.count_by_norm = TRUE

(***************************************************************************)
(* calculate_line_statistics(line_emps) (utils/data_utils.py 88-106).  An  *)
(* employee row is [line, work_time]: line is a string, None (NoCode) or   *)
(* NoKey where the row has no 'line' key; work_time is a Python value.     *)
(***************************************************************************)
NoKey == "<no key>"

PyFloat(q) == [k |-> "float", v |-> q]

\* float(value) raises for a blank and for a malformed string.
FloatRaises(value) == value.k \in {"blank", "bad"}

\* float(value) of a number.
PyFloatOf(value) == IF value.k = "float" THEN value.v ELSE QInt(value.v)

\* (mutant of LineOf: emp.get('line') without the default)
LineOfNoDefault(emp) == emp.line

\* Line 93: emp.get('line', 'A3')
LineOf(emp) == IF emp.line = NoKey THEN "A3" ELSE emp.line

\* (mutant of InLineCounts: every row is counted)
InLineCountsAlways(line) == TRUE

\* Line 94: line in line_counts
InLineCounts(line) == line \in {"A3", "A4"}

\* Lines 93-99: the loop body on the statistics st.
AddEmp(st, emp) ==
    LET line      == LineOf(emp)
        work_time == PyGet(emp.work_time, PyFloat(QInt(0)))
        counted   == [st EXCEPT !.counts[IF line = "A3" THEN "A3" ELSE "A4"] = @ + 1]
    IN  IF st.raised \/ ~InLineCounts(line) THEN st
        ELSE IF work_time.k = "none" THEN counted
        ELSE IF FloatRaises(work_time) THEN [st EXCEPT !.raised = TRUE]
        ELSE [counted EXCEPT !.hours[IF line = "A3" THEN "A3" ELSE "A4"] =
                               QAdd(@, PyFloatOf(work_time))]

RECURSIVE AddEmps(_, _)
AddEmps(st, emps) ==
    IF emps = <<>> THEN st ELSE AddEmps(AddEmp(st, Head(emps)), Tail(emps))

calculate_line_statistics(emps) ==
    LET st == AddEmps(NoStatistics, emps)
    IN  IF st.raised THEN [NoStatistics EXCEPT !.raised = TRUE]
        ELSE [st EXCEPT !.total_count = st.counts.A3 + st.counts.A4,
                        !.total_hours = QAdd(st.hours.A3, st.hours.A4)]

(***************************************************************************)
(* SpecLine: calculate_line_statistics on every list of a bounded domain.  *)
(***************************************************************************)
MaxEmps == 2        \* the list holds at most MaxEmps rows

StatLines == { "A3", "A4", "B1", "", NoCode, NoKey }

StatWorkTimes ==
    { PyAbsent, PyNone, PyBlank, PyBad, PyInt(8), PyFloat(Q(15, 2)) }

StatRows == [ line : StatLines, work_time : StatWorkTimes ]

LineInit ==
    /\ lEmps \in SeqsUpTo(StatRows, MaxEmps)
    /\ lOut = NoStatistics
    /\ lPc = "call"
    /\ sA3 = <<>> /\ sA4 = <<>>
    /\ sHours = [l \in Lines |-> QInt(0)]
    /\ sOut = <<>> /\ sPc = "idle"
    /\ SeqIdle
    /\ NormIdle
    /\ StoreIdle
    /\ PageIdle

CalculateLineStatistics ==
    /\ lPc = "call"
    /\ lOut' = calculate_line_statistics(lEmps)
    /\ lPc' = "done"
    /\ UNCHANGED <<lEmps, sA3, sA4, sHours, sOut, sPc, seqVars, normVars, storeVars, pageVars>>

LineNext == CalculateLineStatistics

SpecLine == LineInit /\ [][LineNext]_vars

\* ---- what the claims about the statistics speak of, stated on the list
RowsOn(lines) == { i \in DOMAIN lEmps : lEmps[i].line \in lines }

RECURSIVE HoursOf(_)
HoursOf(rows) ==
    IF rows = {} THEN QInt(0)
    ELSE LET i == CHOOSE x \in rows : TRUE
             w == lEmps[i].work_time
         IN  QAdd(IF w.k \in {"absent", "none"} THEN QInt(0) ELSE PyFloatOf(w),
                  HoursOf(rows \ {i}))

UnknownLines == { "B1", "" }

KnownRows == SelectSeq(lEmps, LAMBDA r : r.line \notin UnknownLines)

(***************************************************************************)
(* C22.  A row whose line is a value other than A3 and A4 changes nothing: *)
(* the result is the result for the list without such rows, whatever their *)
(* work_time, and they raise no error.  The total count is the A3 count    *)
(* plus the A4 count, the total hours the A3 hours plus the A4 hours.      *)
(***************************************************************************)
C22_UnknownLineExcluded ==
    lPc = "done" =>
        /\ lOut = calculate_line_statistics(KnownRows)
        /\ RowsOn({"A3", "A4", NoKey}) = {} => ~lOut.raised
        /\ lOut.total_count = lOut.counts.A3 + lOut.counts.A4
        /\ lOut.total_hours = QAdd(lOut.hours.A3, lOut.hours.A4)
        /\ ~lOut.raised => lOut.total_count = Cardinality(RowsOn({"A3", "A4", NoKey}))

\* A list with a row on line B1 with malformed hours and a row on A4 with 8
\* hours has been summarized: one employee, 8 hours.
C22_Witness ==
    /\ lPc = "done"
    /\ lEmps = << [line |-> "B1", work_time |-> PyBad],
                  [line |-> "A4", work_time |-> PyInt(8)] >>
    /\ ~lOut.raised
    /\ lOut.total_count = 1
    /\ lOut.total_hours = QInt(8)

(***************************************************************************)
(* C23 (as stated).  A row without a line value, be it None or no 'line'   *)
(* key, is counted on neither line and adds its hours to neither line.     *)
(***************************************************************************)
C23_Original ==
    lPc = "done" /\ ~lOut.raised =>
        /\ lOut.counts.A3 = Cardinality(RowsOn({"A3"}))
        /\ lOut.counts.A4 = Cardinality(RowsOn({"A4"}))
        /\ lOut.hours.A3 = HoursOf(RowsOn({"A3"}))
        /\ lOut.hours.A4 = HoursOf(RowsOn({"A4"}))

(***************************************************************************)
(* C23 (amended).  A row whose line is None is counted on neither line and *)
(* adds its hours to neither.  A row without a 'line' key is a row of line *)
(* A3: it is counted on A3 and its hours are added to the A3 hours.        *)
(***************************************************************************)
C23_NoLineValue ==
    lPc = "done" /\ ~lOut.raised =>
        /\ lOut.counts.A3 = Cardinality(RowsOn({"A3", NoKey}))
        /\ lOut.counts.A4 = Cardinality(RowsOn({"A4"}))
        /\ lOut.hours.A3 = HoursOf(RowsOn({"A3", NoKey}))
        /\ lOut.hours.A4 = HoursOf(RowsOn({"A4"}))

\* A row with line None and a row without the key, 8 hours each, have been
\* summarized: one employee and 8 hours on A3.
C23_Witness ==
    /\ lPc = "done"
    /\ lEmps = << [line |-> NoCode, work_time |-> PyInt(8)],
                  [line |-> NoKey, work_time |-> PyInt(8)] >>
    /\ lOut.counts.A3 = 1
    /\ lOut.hours.A3 = QInt(8)
    /\ lOut.total_count = 1

(***************************************************************************)
(* C26.  calculate_line_statistics returns a result for every list: a row  *)
(* with missing, None, blank or malformed hours raises no error.           *)
(***************************************************************************)
C26_NeverRaises == lPc = "done" => ~lOut.raised

(***************************************************************************)
(* SpecEmps: the session of the report page restricted to the line         *)
(* employees: the employee form, the remove buttons, the date selector,    *)
(* the reset button and the save button.                                   *)
(***************************************************************************)
EmpsNext ==
    \/ \E d \in Dates : SelectDate(d)
    \/ ResetState
    \/ \E in \in EmployeeInputs : AddEmployee(in)
    \/ \E index \in 1..MaxWork + 1 : RemoveEmployee(index)
    \/ Save

SpecEmps == Init /\ [][EmpsNext]_vars

\* ---- what the claims about the working set's employees and supports speak of
Pairs(emps) == { <<emps[i].employee_id, emps[i].line>> : i \in DOMAIN emps }

OnePerPair(emps) == Cardinality(Pairs(emps)) = Len(emps)

(***************************************************************************)
(* C24.  The working set never holds two line-employee rows of the same    *)
(* (employee_id, line), in the session and in what the page has stored.    *)
(* An add_employee either is rejected and leaves the rows as they were, or *)
(* appends one row of a pair that was not present.                         *)
(***************************************************************************)
C24_OneAssignmentPerPair ==
    [][ /\ OnePerPair(line_emps')
        /\ \A r \in db'.reports : OnePerPair(get_report(db', <<r.site_id, r.report_date>>).line_emps)
        /\ pev'.op = "add_employee" =>
              IF pev'.ok
              THEN /\ Len(line_emps') = Len(Run.line_emps) + 1
                   /\ SubSeq(line_emps', 1, Len(Run.line_emps)) = Run.line_emps
                   /\ Pairs(line_emps') # Pairs(Run.line_emps)
              ELSE line_emps' = Run.line_emps ]_vars

\* Employee 1 is in the working set on A3 and, after an accepted
\* add_employee, on A4.
C24_Witness ==
    /\ pev.op = "add_employee" /\ pev.ok
    /\ Pairs(line_emps) = { <<1, "A3">>, <<1, "A4">> }

SlotsOf(sups, role) == Cardinality({ i \in DOMAIN sups : sups[i].role = role })

OneSlotPerRole(sups) == SlotsOf(sups, "senior") = 1 /\ SlotsOf(sups, "repair") = 1

(***************************************************************************)
(* C25.  After every add_support_role, remove_support_role and save the    *)
(* supports of the working set, and the supports of every stored report,   *)
(* hold exactly one row of role senior and exactly one of role repair.     *)
(***************************************************************************)
C25_OneSlotPerRole ==
    pev.op \in {"add_support_role", "remove_support_role", "save"} /\ pev.ok =>
        /\ OneSlotPerRole(supports)
        /\ \A r \in db.reports :
              OneSlotPerRole(get_report(db, <<r.site_id, r.report_date>>).supports)

\* Lines 73-104 on an empty session: the working set the stored report of
\* (site, date) gives, empty lists when none is stored.
StoredWorkingSet(d, key) ==
    LET ss == Prefill([ tasks_A3 |-> <<>>, tasks_A4 |-> <<>>, line_emps |-> <<>>,
                        supports |-> <<>>, prefilled |-> FALSE,
                        confirm_delete |-> FALSE, asked_for |-> <<0, 0>> ],
                      get_report(d, key))
    IN  << ss.tasks_A3, ss.tasks_A4, ss.line_emps, ss.supports >>

(***************************************************************************)
(* C27.  After the site or the date has been changed, the working set is   *)
(* the content of the report stored for the (site, date) now selected, and *)
(* empty when none is stored.                                              *)
(***************************************************************************)
C27_WorkingSetFollowsSelection ==
    [][ pev'.op \in {"select_site", "select_date"} =>
          << tasks_A3', tasks_A4', line_emps', supports' >>
             = StoredWorkingSet(db', Key(site_name', rep_date')) ]_vars

(***************************************************************************)
(* SpecDelete: the page opened on a store that holds a report for each day *)
(* of the default site; the selectors, the reset button and the buttons of *)
(* the delete section.                                                     *)
(***************************************************************************)
TwoReports ==
    LET first == upsert_report(EmptyDb, ZeroSeq, Key(TaskSite, 1),
                               <<Task2>>, <<Emp1>>, <<Sup2>>)
    IN  upsert_report(first.db, first.seq, Key(TaskSite, 2), <<Task1>>, <<Emp1b>>, <<>>)

DeleteInit ==
    /\ site_name = TaskSite
    /\ rep_date = Today
    /\ db = TwoReports.db
    /\ seq = TwoReports.seq
    /\ tasks_A3 = StoredWorkingSet(TwoReports.db, Key(TaskSite, Today))[1]
    /\ tasks_A4 = StoredWorkingSet(TwoReports.db, Key(TaskSite, Today))[2]
    /\ line_emps = StoredWorkingSet(TwoReports.db, Key(TaskSite, Today))[3]
    /\ supports = StoredWorkingSet(TwoReports.db, Key(TaskSite, Today))[4]
    /\ prefilled = TRUE
    /\ confirm_delete = FALSE
    /\ asked_for = <<0, 0>>
    /\ pev = PageEvent("load", TRUE)
    /\ tx = [c \in Clients |-> IdleTx]
    /\ last = [k \in StoreKeys |-> Never]
    /\ ev = [op |-> "init", c |-> "c1", key |-> <<0, 0>>]
    /\ calls = 0
    /\ NormIdle /\ SumIdle

DeleteNext ==
    \/ \E s \in Sites : SelectSite(s)
    \/ \E d \in Dates : SelectDate(d)
    \/ ResetState
    \/ DeleteButton
    \/ ConfirmYes
    \/ ConfirmYesFails
    \/ CancelNo

SpecDelete == DeleteInit /\ [][DeleteNext]_vars

(***************************************************************************)
(* C28.  A report is deleted only in a script run where confirm_delete is  *)
(* true and the confirm button is pressed, and confirm_delete had been set *)
(* by the delete button while the same (site, date) was selected; after a  *)
(* delete confirm_delete is false; cancel clears confirm_delete and        *)
(* deletes nothing.                                                        *)
(***************************************************************************)
C28_DeleteAfterConfirmation ==
    [][ /\ db' # db => pev' = PageEvent("delete", TRUE) /\ confirm_delete
        /\ pev' = PageEvent("delete", TRUE) =>
              /\ asked_for = Key(site_name, rep_date)
              /\ ~confirm_delete'
        /\ pev'.op = "cancel" => ~confirm_delete' /\ db' = db ]_vars

\* A returned row as the row of a next call: the values of the four fields
\* normalize_task_row reads (it overwrites product_name, norm_per_employee
\* and norm_with_discount in every branch).
AsRow(out) ==
    [ sap_code |-> out.sap_code, discount_percent |-> PyInt(out.discount_percent),
      qty_made |-> PyInt(out.qty_made), count_by_norm |-> PyBool(out.count_by_norm) ]

\* extract_user_fields (utils/data_utils.py 50-56) on one row.
extract_user_fields(row) ==
    [ sap_code |-> row.sap_code,
      discount_percent |-> PyInt(to_int_safe(row.discount_percent, 0)),
      qty_made |-> row.qty_made, count_by_norm |-> row.count_by_norm ]

\* app.py 413-453 on one row of the working set, the user editing nothing:
\* display = normalize(extract_user_fields(row)), enriched =
\* normalize(edited), and the session takes the enriched row.
Render(line, row) ==
    normalize_task_row(line, AsRow(normalize_task_row(line, extract_user_fields(row))))

(***************************************************************************)
(* C29.  normalize_task_row is idempotent: normalizing the returned row    *)
(* again on the same line returns it unchanged (the annotation of a        *)
(* product the line does not make is not appended a second time).  So a    *)
(* render of the editor without edits returns the normalized row, and a    *)
(* second render leaves that row as it is.                                 *)
(***************************************************************************)
C29_Idempotent ==
    nPc = "done" =>
        /\ normalize_task_row(nLine, AsRow(nOut)) = nOut
        /\ Render(nLine, nRow) = nOut
        /\ Render(nLine, AsRow(Render(nLine, nRow))) = Render(nLine, nRow)

\* The row of P2 on line A4, with a blank discount and no flag, has been
\* normalized: the name is annotated once, the discount is 0, the flag False.
C29_Witness ==
    /\ nPc = "done"
    /\ nLine = "A4"
    /\ nRow.sap_code = "P2"
    /\ nRow.discount_percent = PyBlank
    /\ nRow.count_by_norm = PyNone
    /\ nOut.product_name = "N2 (not produced on A4)"
    /\ nOut.discount_percent = 0
    /\ ~nOut.count_by_norm
    /\ normalize_task_row(nLine, AsRow(nOut)).product_name = "N2 (not produced on A4)"

(***************************************************************************)
(* ensure_row_ids and next_seq (utils/data_utils.py 58-76, app.py          *)
(* 286-301) on one list name.  The list is the sequence of its rows'       *)
(* row_id values.                                                          *)
(***************************************************************************)
\* Lines 61-62, 73-74: if seq_key not in session_state: session_state[seq_key] = 0
CounterOf(c) == IF c = NoCounter THEN 0 ELSE c

\* Lines 65-68: the loop over the rows, c the counter before the row.
RECURSIVE LabelRows(_, _)
LabelRows(c, rows) ==
    IF rows = <<>> THEN [seq |-> c, rows |-> <<>>]
    ELSE IF Head(rows) # NoRowId
         THEN LET rest == LabelRows(c, Tail(rows))
              IN  [seq |-> rest.seq, rows |-> << Head(rows) >> \o rest.rows]
         ELSE LET rest == LabelRows(c + 1, Tail(rows))
              IN  [seq |-> rest.seq, rows |-> << c + 1 >> \o rest.rows]

\* ensure_row_ids(list_name, session_state): the counter and the rows after.
ensure_row_ids(c, rows) == LabelRows(CounterOf(c), rows)

\* (mutant of next_seq: the counter is returned without being advanced)
next_seq_stale(c) == [seq |-> CounterOf(c), value |-> CounterOf(c)]

\* next_seq(list_name, session_state): the counter after and the value returned.
next_seq(c) == [seq |-> CounterOf(c) + 1, value |-> CounterOf(c) + 1]

(***************************************************************************)
(* SpecSeq: the calls the main page makes for one list, and the two ways   *)
(* rows without a row_id get into the list.                                *)
(***************************************************************************)
MaxSeq == 4         \* the counter is advanced up to MaxSeq

MaxList == 3        \* the list holds at most MaxList rows

Unlabelled(rows) == Cardinality({ i \in DOMAIN rows : rows[i] = NoRowId })

\* A session without a counter; the list holds the rows of a prefill, none
\* of them with a row_id.
SeqInit ==
    /\ qSeq = NoCounter
    /\ qRows \in { [i \in 1..n |-> NoRowId] : n \in 0..MaxList }
    /\ qSeen = {}
    /\ qOp = "init"
    /\ sA3 = <<>> /\ sA4 = <<>>
    /\ sHours = [l \in Lines |-> QInt(0)]
    /\ sOut = <<>> /\ sPc = "idle"
    /\ LineIdle
    /\ NormIdle
    /\ StoreIdle
    /\ PageIdle

SeqUnchanged == UNCHANGED <<sA3, sA4, sHours, sOut, sPc, lineVars, normVars, storeVars, pageVars>>

\* app.py 414, 473: _ensure_row_ids(list_name) of a script run.
EnsureRowIds ==
    /\ CounterOf(qSeq) + Unlabelled(qRows) <= MaxSeq
    /\ qSeq' = ensure_row_ids(qSeq, qRows).seq
    /\ qRows' = ensure_row_ids(qSeq, qRows).rows
    /\ qOp' = "ensure_row_ids"
    /\ UNCHANGED qSeen
    /\ SeqUnchanged

\* A call of next_seq whose value is not put into the list.
NextSeq ==
    /\ CounterOf(qSeq) < MaxSeq
    /\ qSeq' = next_seq(qSeq).seq
    /\ qSeen' = qSeen \cup { next_seq(qSeq).value }
    /\ qOp' = "next_seq"
    /\ UNCHANGED qRows
    /\ SeqUnchanged

\* app.py 401-411: the add button: _ensure_row_ids, then a row with
\* "row_id": _next_seq(list_name) is appended.
AddRow ==
    /\ Len(qRows) < MaxList
    /\ CounterOf(qSeq) + Unlabelled(qRows) < MaxSeq
    /\ LET e == ensure_row_ids(qSeq, qRows)
           n == next_seq(e.seq)
       IN  /\ qSeq' = n.seq
           /\ qRows' = Append(e.rows, n.value)
           /\ qSeen' = qSeen \cup { n.value }
    /\ qOp' = "next_seq"
    /\ SeqUnchanged

\* A row added in the data editor (num_rows dynamic): it has no row_id.
EditorAddsRow ==
    /\ Len(qRows) < MaxList
    /\ qRows' = Append(qRows, NoRowId)
    /\ qOp' = "editor"
    /\ UNCHANGED <<qSeq, qSeen>>
    /\ SeqUnchanged

\* app.py 453: the session list becomes the editor's rows, which carry the
\* user fields and the computed fields only.
EditorReplacesRows ==
    /\ qRows' = [i \in DOMAIN qRows |-> NoRowId]
    /\ qOp' = "editor"
    /\ UNCHANGED <<qSeq, qSeen>>
    /\ SeqUnchanged

SeqNext ==
    \/ EnsureRowIds
    \/ NextSeq
    \/ AddRow
    \/ EditorAddsRow
    \/ EditorReplacesRows

SpecSeq == SeqInit /\ [][SeqNext]_vars

RowIds(rows) == { rows[i] : i \in { j \in DOMAIN rows : rows[j] # NoRowId } }

(***************************************************************************)
(* C30.  From a session without a counter, no call of ensure_row_ids or    *)
(* next_seq lowers the counter, every value next_seq returns is greater    *)
(* than every value it returned before, and no two rows of the list carry  *)
(* the same row_id; after ensure_row_ids every row carries one.            *)
(***************************************************************************)
C30_RowIdsUnique ==
    [][ /\ CounterOf(qSeq') >= CounterOf(qSeq)
        /\ qOp' = "next_seq" =>
              /\ Cardinality(qSeen' \ qSeen) = 1
              /\ \A new \in qSeen' \ qSeen : \A old \in qSeen : new > old
        /\ Cardinality(RowIds(qRows')) + Unlabelled(qRows') = Len(qRows')
        /\ qOp' = "ensure_row_ids" => Unlabelled(qRows') = 0 ]_vars

\* Rows of the list were labelled, lost their labels in the editor and were
\* labelled again as 2 and 3; the add button then appended the row 4.
C30_Witness ==
    /\ qOp = "next_seq"
    /\ qRows = <<2, 3, 4>>
    /\ qSeq = 4
    /\ qSeen = {4}

==============================================================================
